---- MODULE Spec2Model ----
(***************************************************************************)
(* Fractal-tree resource allocator of COGNITIVE_ATLAS_SYSTEM.              *)
(*                                                                         *)
(* Two allocators live in the repository:                                  *)
(*   core/hardware_optimizer.py        QuantumFractalOptimizer v2.1        *)
(*       (session gate, node security, quantum_memory_allocation,          *)
(*        get_performance_metrics, _emergency_cleanup)                     *)
(*                                                 -> specification Spec   *)
(*   test_quantum_optimizer_stress.py  QuantumFractalOptimizer             *)
(*       (fractal_memory_allocation, first fit under self._lock)           *)
(*                                                 -> specification        *)
(*                                                    StressSpec           *)
(* The constructors of both, run on arguments around the limits of        *)
(* _validate_parameters                            -> specification        *)
(*                                                    BuildSpec            *)
(* Further specifications over the same variables:                         *)
(*   FairSpec     Spec with a thread inside the allocation body running on *)
(*   ComputeSpec  fractal_cpu_distribution and optimize_system_wide of the *)
(*                stress-test optimizer                                    *)
(*   ScanSpec     _validate_node_security called on the security tree as   *)
(*                the constructor leaves it, at every age of its scans     *)
(*   PathSpec     _generate_secure_path and _parse_secure_path on the      *)
(*                largest tree                                             *)
(*   CleanupSpec  _emergency_cleanup on trees with damaged nodes           *)
(*                                                                         *)
(* Numbers.  Sizes and capacities are bytes.  A Python number, int or      *)
(* float, is held exactly as a sign, an odd mantissa and a power of two;   *)
(* the float operations of the code (+, -, *, / on doubles) are the exact  *)
(* operation followed by rounding to 53 binary digits, ties to even, so a  *)
(* utilization, an available capacity or an efficiency of the model is the *)
(* double the interpreter computes.  Ints stay exact at any size.          *)
(*                                                                         *)
(* Time is whole seconds on the perf_counter clock.  Every read of the     *)
(* clock by the code is a read of its own: the constructor reads it once   *)
(* for session_start and once for the last_scan of every security node,    *)
(* _validate_session reads it once and _validate_node_security once for    *)
(* each node, and the clock may have moved on between two reads.  The      *)
(* variable now holds what the last read returned; a read returns any time *)
(* point not before it.  The reads whose value nothing in the model keeps  *)
(* (the timestamp and last_accessed of a record, the hash input of a path, *)
(* session_duration_sec) are left out.                                     *)
(*                                                                         *)
(* Threads.  The bodies of quantum_memory_allocation and                   *)
(* get_performance_metrics run under self._security_lock;                  *)
(* _emergency_cleanup takes no lock.  Each read or write of a node of the  *)
(* memory tree, and of a current_load of the compute tree, by one of the   *)
(* three is a step of its own, so a sweep of the cleanup can run between   *)
(* any two of them.                                                        *)
(*                                                                         *)
(* SecurityConfig is read as declared (lines 37-41).  As shipped the class *)
(* statement itself fails (its __slots__ names the fields that carry       *)
(* defaults), so the module only loads with line 35 removed; the model is  *)
(* of the class behind it.                                                 *)
(***************************************************************************)
EXTENDS Integers, Sequences, FiniteSets, TLC

(***************************************************************************)
(* Numbers.  A natural number is the sequence of its base-32768 digits,    *)
(* lowest first, without leading zeros; <<>> is 0.                         *)
(***************************************************************************)
LIMB == 32768
LIMB_BITS == 15
MANTISSA_BITS == 53

RECURSIVE NatOf(_)
NatOf(n) == IF n = 0 THEN <<>> ELSE <<n % LIMB>> \o NatOf(n \div LIMB)

RECURSIVE NatTrim(_)
NatTrim(a) ==
    IF Len(a) > 0 /\ a[Len(a)] = 0 THEN NatTrim(SubSeq(a, 1, Len(a) - 1)) ELSE a

Limb(a, i) == IF i <= Len(a) THEN a[i] ELSE 0

\* -1, 0, 1 as a < b, a = b, a > b
NatCmp(a, b) ==
    IF Len(a) # Len(b) THEN (IF Len(a) < Len(b) THEN -1 ELSE 1)
    ELSE LET differ == {i \in 1 .. Len(a) : a[i] # b[i]}
         IN  IF differ = {} THEN 0
             ELSE LET top == CHOOSE i \in differ : \A j \in differ : j <= i
                  IN  IF a[top] < b[top] THEN -1 ELSE 1

RECURSIVE NatAddFrom(_, _, _, _)
NatAddFrom(a, b, i, carry) ==
    IF i > Len(a) /\ i > Len(b)
    THEN (IF carry = 0 THEN <<>> ELSE <<carry>>)
    ELSE LET s == Limb(a, i) + Limb(b, i) + carry
         IN  <<s % LIMB>> \o NatAddFrom(a, b, i + 1, s \div LIMB)

NatAdd(a, b) == NatAddFrom(a, b, 1, 0)

\* a - b for a >= b
RECURSIVE NatSubFrom(_, _, _, _)
NatSubFrom(a, b, i, borrow) ==
    IF i > Len(a) THEN <<>>
    ELSE LET d == a[i] - Limb(b, i) - borrow
         IN  IF d < 0 THEN <<d + LIMB>> \o NatSubFrom(a, b, i + 1, 1)
             ELSE <<d>> \o NatSubFrom(a, b, i + 1, 0)

NatSub(a, b) == NatTrim(NatSubFrom(a, b, 1, 0))

\* a * k for 0 <= k < LIMB
RECURSIVE NatMulLimbFrom(_, _, _, _)
NatMulLimbFrom(a, k, i, carry) ==
    IF i > Len(a) THEN (IF carry = 0 THEN <<>> ELSE <<carry>>)
    ELSE LET p == a[i] * k + carry
         IN  <<p % LIMB>> \o NatMulLimbFrom(a, k, i + 1, p \div LIMB)

NatMulLimb(a, k) == IF k = 0 THEN <<>> ELSE NatMulLimbFrom(a, k, 1, 0)

\* a * LIMB ^ n
NatShiftLimbs(a, n) == IF a = <<>> THEN <<>> ELSE [i \in 1 .. n |-> 0] \o a

RECURSIVE NatMulFrom(_, _, _)
NatMulFrom(a, b, i) ==
    IF i > Len(b) THEN <<>>
    ELSE NatAdd(NatShiftLimbs(NatMulLimb(a, b[i]), i - 1), NatMulFrom(a, b, i + 1))

NatMul(a, b) == NatMulFrom(a, b, 1)

\* <<a \div k, a % k>> for 0 < k <= LIMB: the quotient as a number, the rest as an integer
RECURSIVE NatDivLimbFrom(_, _, _, _)
NatDivLimbFrom(a, k, i, rest) ==
    IF i = 0 THEN <<<<>>, rest>>
    ELSE LET n == rest * LIMB + a[i]
             lower == NatDivLimbFrom(a, k, i - 1, n % k)
         IN  <<lower[1] \o <<n \div k>>, lower[2]>>

NatDivLimb(a, k) ==
    LET qr == NatDivLimbFrom(a, k, Len(a), 0) IN <<NatTrim(qr[1]), qr[2]>>

\* a * 2 ^ s
NatShiftLeft(a, s) ==
    NatShiftLimbs(NatMulLimb(a, 2 ^ (s % LIMB_BITS)), s \div LIMB_BITS)

\* a \div 2 ^ s
NatShiftRight(a, s) ==
    IF s \div LIMB_BITS >= Len(a) THEN <<>>
    ELSE NatDivLimb(SubSeq(a, (s \div LIMB_BITS) + 1, Len(a)), 2 ^ (s % LIMB_BITS))[1]

\* the number of binary digits of a
NatBitLength(a) ==
    IF a = <<>> THEN 0
    ELSE (Len(a) - 1) * LIMB_BITS
         + (CHOOSE k \in 1 .. LIMB_BITS : 2 ^ (k - 1) <= a[Len(a)] /\ a[Len(a)] < 2 ^ k)

\* the number of zero binary digits at the low end of a > 0
NatTrailingZeros(a) ==
    LET first == CHOOSE i \in 1 .. Len(a) : a[i] # 0 /\ \A j \in 1 .. (i - 1) : a[j] = 0
        low == CHOOSE k \in 0 .. (LIMB_BITS - 1) :
                   a[first] % (2 ^ (k + 1)) # 0 /\ a[first] % (2 ^ k) = 0
    IN  (first - 1) * LIMB_BITS + low

\* the largest digit d in lo .. hi with d * b <= rest, found by halving
RECURSIVE QuotientDigit(_, _, _, _)
QuotientDigit(rest, b, lo, hi) ==
    IF lo = hi THEN lo
    ELSE LET mid == (lo + hi + 1) \div 2
         IN  IF NatCmp(NatMulLimb(b, mid), rest) <= 0
             THEN QuotientDigit(rest, b, mid, hi)
             ELSE QuotientDigit(rest, b, lo, mid - 1)

\* <<a \div b, a % b>> for b > 0, both as numbers: long division, one digit
\* of a at a time from the top
RECURSIVE NatDivModFrom(_, _, _)
NatDivModFrom(a, b, i) ==
    IF i > Len(a) THEN <<<<>>, <<>>>>
    ELSE LET upper == NatDivModFrom(a, b, i + 1)
             rest == NatTrim(<<a[i]>> \o upper[2])
             d == QuotientDigit(rest, b, 0, LIMB - 1)
         IN  <<NatTrim(<<d>> \o upper[1]), NatSub(rest, NatMulLimb(b, d))>>

NatDivMod(a, b) ==
    IF Len(b) = 1
    THEN LET qr == NatDivLimb(a, b[1]) IN <<qr[1], NatOf(qr[2])>>
    ELSE NatDivModFrom(a, b, 1)

(***************************************************************************)
(* A Python number, int or float, is [neg, m, e]: the value is m * 2 ^ e,  *)
(* negated when neg, with m odd; zero is m = <<>>, e = 0.  Every int and   *)
(* every finite float has exactly one such form.                           *)
(***************************************************************************)
Zero == [neg |-> FALSE, m |-> <<>>, e |-> 0]

Num(neg, m, e) ==
    IF m = <<>> THEN Zero
    ELSE IF m[1] % 2 = 1 THEN [neg |-> neg, m |-> m, e |-> e]
    ELSE LET z == NatTrailingZeros(m)
         IN  [neg |-> neg, m |-> NatShiftRight(m, z), e |-> e + z]

\* the Python int n
PyInt(n) == IF n < 0 THEN Num(TRUE, NatOf(-n), 0) ELSE Num(FALSE, NatOf(n), 0)

One == PyInt(1)

Neg(x) == IF x.m = <<>> THEN x ELSE [x EXCEPT !.neg = ~x.neg]

\* x + y, exactly
Add(x, y) ==
    IF x.m = <<>> THEN y
    ELSE IF y.m = <<>> THEN x
    ELSE LET e == IF x.e <= y.e THEN x.e ELSE y.e
             mx == NatShiftLeft(x.m, x.e - e)
             my == NatShiftLeft(y.m, y.e - e)
         IN  IF x.neg = y.neg THEN Num(x.neg, NatAdd(mx, my), e)
             ELSE IF NatCmp(mx, my) >= 0 THEN Num(x.neg, NatSub(mx, my), e)
             ELSE Num(y.neg, NatSub(my, mx), e)

Sub(x, y) == Add(x, Neg(y))

\* x * y, exactly
Mul(x, y) ==
    IF x.m = <<>> \/ y.m = <<>> THEN Zero
    ELSE IF x = One THEN y
    ELSE IF y = One THEN x
    ELSE Num(x.neg # y.neg, NatMul(x.m, y.m), x.e + y.e)

\* -1, 0, 1 as x < y, x = y, x > y
Cmp(x, y) ==
    IF x = y THEN 0
    ELSE IF x.m # <<>> /\ y.m # <<>> /\ x.neg # y.neg THEN (IF x.neg THEN -1 ELSE 1)
    ELSE LET d == Sub(x, y) IN IF d.neg THEN -1 ELSE 1

LT(x, y) == Cmp(x, y) < 0
LE(x, y) == Cmp(x, y) <= 0
GT(x, y) == Cmp(x, y) > 0
GE(x, y) == Cmp(x, y) >= 0

\* the float nearest to x, ties to the even mantissa (the exponent range of a
\* double is never left by the values of the program)
Round53(x) ==
    LET len == NatBitLength(x.m)
        s == len - MANTISSA_BITS
    IN  IF Len(x.m) * LIMB_BITS <= MANTISSA_BITS THEN x
        ELSE IF s <= 0 THEN x
        ELSE LET q == NatShiftRight(x.m, s)
                 rest == NatSub(x.m, NatShiftLeft(q, s))
                 half == NatCmp(rest, NatShiftLeft(<<1>>, s - 1))
                 up == half > 0 \/ (half = 0 /\ Limb(q, 1) % 2 = 1)
             IN  Num(x.neg, IF up THEN NatAdd(q, <<1>>) ELSE q, x.e + s)

\* float + float, float - float, float * float
FAdd(x, y) == Round53(Add(x, y))
FSub(x, y) == Round53(Sub(x, y))
FMul(x, y) == Round53(Mul(x, y))

\* x / y as a float, y # 0: 55 or more digits of the quotient, one more digit
\* that is 1 when the division left a rest, then rounded
FDiv(x, y) ==
    IF x.m = <<>> THEN Zero
    ELSE LET k == IF MANTISSA_BITS + 2 + NatBitLength(y.m) > NatBitLength(x.m)
                  THEN MANTISSA_BITS + 2 + NatBitLength(y.m) - NatBitLength(x.m)
                  ELSE 0
             qr == NatDivMod(NatShiftLeft(x.m, k), y.m)
             sticky == IF qr[2] = <<>> THEN <<>> ELSE <<1>>
         IN  Round53(Num(x.neg # y.neg, NatAdd(NatMulLimb(qr[1], 2), sticky),
                         x.e - y.e - k - 1))

\* the natural number that the int x >= 0 is
NatOfInt(x) == NatShiftLeft(x.m, x.e)

\* x // y for ints x >= 0, y > 0
FloorDiv(x, y) == Num(FALSE, NatDivMod(NatOfInt(x), NatOfInt(y))[1], 0)

\* int(x): the digits after the point dropped
Trunc(x) == IF x.e >= 0 THEN x ELSE Num(x.neg, NatShiftRight(x.m, -x.e), 0)

\* x // n for a float x >= 0 and an int n > 0: the largest whole number that is
\* at most x / n, which floats of this size hold exactly
FloatFloorDiv(x, n) ==
    IF x.e >= 0 THEN FloorDiv(x, n)
    ELSE Num(FALSE, NatDivMod(x.m, NatShiftLeft(NatOfInt(n), -x.e))[1], 0)

\* min(x, y): the first of the two unless the second is smaller
NumMin(x, y) == IF LT(y, x) THEN y ELSE x

\* the integer of the checker that the small int x is
RECURSIVE NatValue(_)
NatValue(a) == IF a = <<>> THEN 0 ELSE a[1] + LIMB * NatValue(Tail(a))

Value(x) == IF x.neg THEN -NatValue(NatOfInt(x)) ELSE NatValue(NatOfInt(x))

(***************************************************************************)
(* Bounds of the model.                                                    *)
(***************************************************************************)
depth == 3
branches == 2
total_ram == 50
cpu_cores == 6
MaxAllocations == 2
MaxPlacements == 6
MaxCalls == 2
MaxDistributions == 2
MaxCycles == 22

(***************************************************************************)
(* Program constants.                                                      *)
(***************************************************************************)
\* 1024 * 1024 * 1024 bytes
GiB == Mul(PyInt(1024), Mul(PyInt(1024), PyInt(1024)))
MAX_MEMORY_ALLOCATION == Mul(PyInt(16), GiB)
SESSION_TIMEOUT == 300
SCAN_MAX_AGE == 60
MAX_THREAT_LEVEL == 50
MIN_SECURITY_SCORE == 70
MIN_FRACTAL_DEPTH == 3
MAX_FRACTAL_DEPTH == 8
MIN_FRACTAL_BRANCHES == 2
MAX_FRACTAL_BRANCHES == 16
MIN_SECURITY_LEVEL == 1
MAX_SECURITY_LEVEL == 5
\* the ceiling on total_ram (32 GiB) and its default when psutil fails (16 GiB)
MAX_TOTAL_RAM == Mul(PyInt(32), GiB)
DEFAULT_TOTAL_RAM == Mul(PyInt(16), GiB)
\* stress-test optimizer: complexity units one core takes (line 99)
CORE_COMPLEXITY == 1000
\* optimize_system_wide (lines 168-171): the load limits 0.8 and 0.3 and the
\* factors 0.98 and 1.02, each the double nearest to the decimal
HIGH_LOAD == FDiv(PyInt(8), PyInt(10))
LOW_LOAD == FDiv(PyInt(3), PyInt(10))
SHRINK == FDiv(PyInt(98), PyInt(100))
GROW == FDiv(PyInt(102), PyInt(100))

Threads == {"t1", "t2"}
NoThread == "none"

Levels == 0 .. (depth - 1)
Nodes == 0 .. (branches - 1)

\* the largest quantum_priority of the memory tree: (depth-1)*10 + branches-1
MaxQuantumPriority == (depth - 1) * 10 + (branches - 1)

\* Inputs of the allocation calls.
Sizes == {Zero, PyInt(13), PyInt(28), Add(MAX_MEMORY_ALLOCATION, One)}
Priorities == {1, MaxQuantumPriority, MaxQuantumPriority + 1}

\* Inputs of the constructors: the arguments around the limits that
\* _validate_parameters tests, and what psutil reports as total memory in
\* bytes (NoPsutil: the query raises).
NoPsutil == [raises |-> TRUE]
Depths == {MIN_FRACTAL_DEPTH - 1, MIN_FRACTAL_DEPTH, MAX_FRACTAL_DEPTH,
           MAX_FRACTAL_DEPTH + 1}
BranchCounts == {MIN_FRACTAL_BRANCHES - 1, MIN_FRACTAL_BRANCHES,
                 MAX_FRACTAL_BRANCHES, MAX_FRACTAL_BRANCHES + 1}
SecurityLevels == {MIN_SECURITY_LEVEL - 1, MIN_SECURITY_LEVEL, MAX_SECURITY_LEVEL,
                   MAX_SECURITY_LEVEL + 1}
SystemRam == {PyInt(0), PyInt(63), Mul(PyInt(40), GiB), NoPsutil}

\* The instants at which the clock is observed: around the scan window and
\* around the session timeout.
TimePoints == {0, SCAN_MAX_AGE, SCAN_MAX_AGE + 1, SESSION_TIMEOUT, SESSION_TIMEOUT + 1}

\* What the clock returns to the constructor of a tree of n nodes: clock[0] to
\* the read of line 58 (session_start) and clock[i] to the read of line 160
\* for the i-th security node in the order of the loops.  The clock never
\* goes back.  StillClock: it stands at 0 through the construction.
StillClock(n) == [i \in 0 .. n |-> 0]

\* the clocks the constructions run on: the still one, and the ones that move
\* on by a second once, after the read of session_start or half-way through
\* the nodes
ConstructionClocks(n) ==
    {[i \in 0 .. n |-> IF i >= moved THEN 1 ELSE 0] :
         moved \in {1, (n \div 2) + 1, n + 1}}

(***************************************************************************)
(* Strings.  A Python string is the sequence of the code points of its     *)
(* characters, what ord gives for each of them.                            *)
(***************************************************************************)
\* the printable ASCII characters in the order of their code points 32 .. 126;
\* U+0060, which a string literal of TLA+ cannot hold, has "" at its place
AsciiChars == <<
    " ", "!", "\"", "#", "$", "%", "&", "'", "(", ")", "*", "+", ",", "-",
    ".", "/", "0", "1", "2", "3", "4", "5", "6", "7", "8", "9", ":", ";", "<",
    "=", ">", "?", "@", "A", "B", "C", "D", "E", "F", "G", "H", "I", "J", "K",
    "L", "M", "N", "O", "P", "Q", "R", "S", "T", "U", "V", "W", "X", "Y", "Z",
    "[", "\\", "]", "^", "_", "", "a", "b", "c", "d", "e", "f", "g", "h",
    "i", "j", "k", "l", "m", "n", "o", "p", "q", "r", "s", "t", "u", "v", "w",
    "x", "y", "z", "{", "|", "}", "~">>

\* ord(c) of a printable ASCII character, written as a one-character literal
Ord(c) == 31 + (CHOOSE i \in 1 .. Len(AsciiChars) : AsciiChars[i] = c)

\* the string of a literal given character by character
Str(literal) == [i \in 1 .. Len(literal) |-> Ord(literal[i])]

\* the code point of the digit 0 of every script with decimal digits (the
\* characters of category Nd in the Unicode database of the interpreter,
\* version 14.0); the digits 1 .. 9 of a script follow its 0
DecimalZeros == {
    48, 1632, 1776, 1984, 2406, 2534, 2662, 2790, 2918, 3046, 3174, 3302,
    3430, 3558, 3664, 3792, 3872, 4160, 4240, 6112, 6160, 6470, 6608, 6784,
    6800, 6992, 7088, 7232, 7248, 42528, 43216, 43264, 43472, 43504, 43600,
    44016, 65296, 66720, 68912, 69734, 69872, 69942, 70096, 70384, 70736,
    70864, 71248, 71360, 71472, 71904, 72016, 72784, 73040, 73120, 92768,
    92864, 93008, 120782, 120792, 120802, 120812, 120822, 123200, 123632,
    125264, 130032}

\* int() reads c as a decimal digit: those of ASCII and of every other script
IsDigit(c) == \E zero \in DecimalZeros : zero <= c /\ c <= zero + 9

DigitVal(c) == c - (CHOOSE zero \in DecimalZeros : zero <= c /\ c <= zero + 9)

\* str(n), f"{n}"
RECURSIVE IntToStr(_)
IntToStr(n) ==
    IF n < 0 THEN Str(<<"-">>) \o IntToStr(-n)
    ELSE IF n < 10 THEN <<Ord("0") + n>>
    ELSE IntToStr(n \div 10) \o <<Ord("0") + (n % 10)>>

\* the characters int() skips at the two ends of its argument: the ASCII
\* tab, line feed, vertical tab, form feed, carriage return and space, and
\* the white space outside ASCII (U+0085, U+00A0, U+1680, U+2000 .. U+200A,
\* U+2028, U+2029, U+202F, U+205F, U+3000).  U+001C .. U+001F, which
\* str.strip() removes, are not among them: int() rejects them
WhitespaceChars ==
    {9, 10, 11, 12, 13, 32, 133, 160, 5760} \cup (8192 .. 8202)
        \cup {8232, 8233, 8239, 8287, 12288}

\* s without the white space at its two ends
RECURSIVE Strip(_)
Strip(s) ==
    IF Len(s) > 0 /\ s[1] \in WhitespaceChars THEN Strip(Tail(s))
    ELSE IF Len(s) > 0 /\ s[Len(s)] \in WhitespaceChars
    THEN Strip(SubSeq(s, 1, Len(s) - 1))
    ELSE s

\* what int(s) reads after the white space and the sign: the digits with
\* their underscores
Unsigned(s) ==
    LET body == Strip(s)
    IN  IF Len(body) > 0 /\ body[1] \in {Ord("+"), Ord("-")} THEN Tail(body)
        ELSE body

\* the value of a non-empty string of decimal digits
RECURSIVE DigitsToInt(_)
DigitsToInt(s) ==
    IF Len(s) = 1 THEN DigitVal(s[1])
    ELSE 10 * DigitsToInt(SubSeq(s, 1, Len(s) - 1)) + DigitVal(s[Len(s)])

\* int(s) succeeds on: white space, an optional sign, decimal digits with single
\* underscores between them, white space
IsIntLiteral(s) ==
    LET u == Unsigned(s)
    IN  /\ Len(u) > 0
        /\ \A i \in 1 .. Len(u) :
               \/ IsDigit(u[i])
               \/ /\ u[i] = Ord("_")
                  /\ 1 < i /\ i < Len(u)
                  /\ IsDigit(u[i - 1]) /\ IsDigit(u[i + 1])

\* int(s) for a string int(s) succeeds on
StrToInt(s) ==
    LET body == Strip(s)
        magnitude == DigitsToInt(SelectSeq(Unsigned(s), IsDigit))
    IN  IF body[1] = Ord("-") THEN -magnitude ELSE magnitude

\* position of the first sep in s, 0 when there is none
FindChar(s, sep) ==
    IF \E i \in 1 .. Len(s) : s[i] = sep
    THEN CHOOSE i \in 1 .. Len(s) : s[i] = sep /\ \A j \in 1 .. (i - 1) : s[j] # sep
    ELSE 0

\* str.split(sep) for a separator of one character
RECURSIVE Split(_, _)
Split(s, sep) ==
    LET i == FindChar(s, sep)
    IN  IF i = 0 THEN <<s>>
        ELSE <<SubSeq(s, 1, i - 1)>> \o Split(SubSeq(s, i + 1, Len(s)), sep)

(***************************************************************************)
(* Paths.                                                                  *)
(***************************************************************************)
\* sha256(...).hexdigest()[:8]: eight lower-case hex characters that depend on
\* the node, the session token and the clock; a fixed representative per node.
SecureHash(level, node, prefix) ==
    Str(<<"0", "e">>) \o IntToStr(level % 10) \o Str(<<"d", "1", "f">>)
        \o IntToStr(node % 10) \o Str(<<"a">>)

\* lines 169-174; prefix is the one-character string the caller passes
_generate_secure_path(level, node, prefix) ==
    prefix \o IntToStr(level) \o Str(<<"N">>) \o IntToStr(node) \o Str(<<"_">>)
        \o SecureHash(level, node, prefix)

\* the parse with the prefix letter left in: level_str is taken from parts, not
\* from parts[1:]
_parse_secure_path_keeps_prefix(path) ==
    LET parts == Split(path, Ord("_"))[1]
        pieces == Split(parts, Ord("N"))
    IN  IF Len(pieces) >= 2 /\ IsIntLiteral(pieces[1]) /\ IsIntLiteral(pieces[2])
        THEN <<StrToInt(pieces[1]), StrToInt(pieces[2])>>
        ELSE <<0, 0>>

\* int(level_str), int(node_str); any exception gives (0, 0)
_parse_secure_path(path) ==
    LET parts == Split(path, Ord("_"))[1]
        rest == IF Len(parts) >= 1 THEN SubSeq(parts, 2, Len(parts)) ELSE <<>>
        level_str == Split(rest, Ord("N"))[1]
        pieces == Split(parts, Ord("N"))
    IN  IF Len(pieces) >= 2 /\ IsIntLiteral(level_str) /\ IsIntLiteral(pieces[2])
        THEN <<StrToInt(level_str), StrToInt(pieces[2])>>
        ELSE <<0, 0>>

\* f"L{level}N{node}", f"C{level}N{node}" of the stress-test optimizer
PlainPath(prefix, level, node) ==
    prefix \o IntToStr(level) \o Str(<<"N">>) \o IntToStr(node)

Max(a, b) == IF a >= b THEN a ELSE b
Min(a, b) == IF a <= b THEN a ELSE b

(***************************************************************************)
(* Construction of the core optimizer.  self carries the fields the        *)
(* builders read: depth, branches, total_ram, cpu_cores.                   *)
(***************************************************************************)
\* the float literals 0.8, 0.1 and 0.05: the floats nearest to the fractions
EightTenths == FDiv(PyInt(8), PyInt(10))
Tenth == FDiv(One, PyInt(10))
Twentieth == FDiv(PyInt(5), PyInt(100))
Half == FDiv(One, PyInt(2))

\* b ** e for ints b and e >= 0
RECURSIVE NumPow(_, _)
NumPow(b, e) == IF e = 0 THEN One ELSE Mul(b, NumPow(b, e - 1))

\* int(min(system_ram * 0.8, 32 GiB)), 16 GiB when psutil raises
_get_secure_ram_allocation(system_ram) ==
    IF system_ram = NoPsutil THEN DEFAULT_TOTAL_RAM
    ELSE Trunc(NumMin(FMul(system_ram, EightTenths), MAX_TOTAL_RAM))

\* the memory tree with each level's share one power of branches too large
_create_quantum_memory_tree_level_share(self) ==
    [level \in 0 .. (self.depth - 1) |->
        [node \in 0 .. (self.branches - 1) |->
            LET quantum_factor == NumPow(PyInt(2), level)
                base_allocation ==
                    FloorDiv(self.total_ram, NumPow(PyInt(self.branches), level))
                quantum_allocation == Mul(base_allocation, quantum_factor)
                secured_allocation ==
                    NumMin(quantum_allocation,
                           FloorDiv(MAX_MEMORY_ALLOCATION,
                                    PyInt(self.branches * level + 1)))
            IN  [memory_allocation |-> secured_allocation,
                 active_processes |-> <<>>,
                 utilization |-> Zero,
                 fractal_path |-> _generate_secure_path(level, node, Str(<<"M">>)),
                 quantum_priority |-> level * 10 + node]]]

\* lines 103-126
_create_quantum_memory_tree(self) ==
    [level \in 0 .. (self.depth - 1) |->
        [node \in 0 .. (self.branches - 1) |->
            LET quantum_factor == NumPow(PyInt(2), level)
                base_allocation ==
                    FloorDiv(self.total_ram, NumPow(PyInt(self.branches), level + 1))
                quantum_allocation == Mul(base_allocation, quantum_factor)
                secured_allocation ==
                    NumMin(quantum_allocation,
                           FloorDiv(MAX_MEMORY_ALLOCATION,
                                    PyInt(self.branches * level + 1)))
            IN  [memory_allocation |-> secured_allocation,
                 active_processes |-> <<>>,
                 utilization |-> Zero,
                 fractal_path |-> _generate_secure_path(level, node, Str(<<"M">>)),
                 quantum_priority |-> level * 10 + node]]]

\* quantum_boost = 1.0 + (level * 0.1)
QuantumBoost(level) == FAdd(One, FMul(PyInt(level), Tenth))

\* lines 128-150; assigned_cores is
\* max(1, int(cores_per_level * quantum_boost // (node + 1)))
_create_quantum_compute_tree(self) ==
    LET cores_per_level == Max(1, self.cpu_cores \div self.depth)
    IN  [level \in 0 .. (self.depth - 1) |->
            [node \in 0 .. (self.branches - 1) |->
                [assigned_cores |->
                     Max(1, Value(Trunc(FloatFloorDiv(
                                FMul(PyInt(cores_per_level), QuantumBoost(level)),
                                PyInt(node + 1))))),
                 current_load |-> Zero,
                 fractal_path |-> _generate_secure_path(level, node, Str(<<"C">>)),
                 quantum_efficiency |-> FAdd(One, FMul(PyInt(level), Twentieth))]]]

\* lines 152-167; clock[i] is what the read of the clock of line 160 returns
\* for the i-th node
_create_security_fractal(self, clock) ==
    [level \in 0 .. (self.depth - 1) |->
        [node \in 0 .. (self.branches - 1) |->
            [intrusion_attempts |-> 0,
             last_scan |-> clock[level * self.branches + node + 1],
             security_score |-> 100,
             fractal_path |-> _generate_secure_path(level, node, Str(<<"S">>)),
             threat_level |-> 0]]]

(***************************************************************************)
(* Construction of the stress-test optimizer.                              *)
(***************************************************************************)
\* min(psutil.virtual_memory().total, 32 GiB), 16 GiB when psutil raises
_get_safe_ram(system_ram) ==
    IF system_ram = NoPsutil THEN DEFAULT_TOTAL_RAM
    ELSE NumMin(system_ram, MAX_TOTAL_RAM)

_create_memory_tree(self) ==
    [level \in 0 .. (self.depth - 1) |->
        [node \in 0 .. (self.branches - 1) |->
            [memory_allocation |->
                 FloorDiv(self.total_ram, NumPow(PyInt(self.branches), level + 1)),
             active_processes |-> <<>>,
             utilization |-> Zero,
             fractal_path |-> PlainPath(Str(<<"L">>), level, node),
             priority |-> level + 1]]]

_create_compute_tree(self) ==
    LET cores_per_level == Max(1, self.cpu_cores \div self.depth)
    IN  [level \in 0 .. (self.depth - 1) |->
            [node \in 0 .. (self.branches - 1) |->
                [assigned_cores |-> Max(1, cores_per_level \div (node + 1)),
                 current_load |-> Zero,
                 fractal_path |-> PlainPath(Str(<<"C">>), level, node),
                 efficiency |-> One]]]

\* the optimizer the allocation calls run on
Self == [depth |-> depth, branches |-> branches, total_ram |-> PyInt(total_ram),
         cpu_cores |-> cpu_cores]

(***************************************************************************)
(* State.                                                                  *)
(***************************************************************************)
VARIABLES
    memory_fractal,     \* core: self.memory_fractal
    compute_fractal,    \* core: self.compute_fractal
    security_fractal,   \* core: self.security_fractal
    session_start,      \* core: self.session_start (seconds)
    now,                \* what the last read of the clock returned, in seconds
    security_lock,      \* core: self._security_lock, its owner
    st_memory_fractal,  \* stress-test optimizer: self.memory_fractal
    st_compute_fractal, \* stress-test optimizer: self.compute_fractal
    st_lock,            \* stress-test optimizer: self._lock, its owner
    pc,                 \* where each caller thread stands
    local,              \* the locals of the call a thread is in
    result,             \* what the call that ended last returned or raised
    placed,             \* stress-test callers: calls that put a record on a node and ended
    allocations,        \* allocation calls placed so far (bounded by MaxAllocations,
                        \* by MaxPlacements for the stress-test optimizer)
    calls,              \* core optimizer: calls begun so far (bounded by MaxCalls)
    ctor,               \* a constructor call: its arguments and what it left
    optimization_cycles, \* core: self.optimization_cycles
    st_optimization_cycles, \* stress-test optimizer: self.optimization_cycles
    distributions       \* fractal_cpu_distribution calls so far (bounded by MaxDistributions)

vars == <<memory_fractal, compute_fractal, security_fractal, session_start, now,
          security_lock, st_memory_fractal, st_compute_fractal, st_lock,
          pc, local, result, placed, allocations, calls, ctor,
          optimization_cycles, st_optimization_cycles, distributions>>

coreTrees == <<memory_fractal, compute_fractal, security_fractal>>
coreVars == <<memory_fractal, compute_fractal, security_fractal, session_start,
              security_lock>>
stVars == <<st_memory_fractal, st_compute_fractal, st_lock, placed,
            st_optimization_cycles, distributions>>

\* the locals of a call: its arguments, the node it has chosen, the value "+="
\* has read, the place of its loop, the list of the search and the sums and
\* means of the metrics.  The field alone is history, read by the properties
\* only: no other call was under way when this one began and none has begun
\* since
NoLocal == [size |-> Zero, priority |-> 0, path |-> <<>>, level |-> 0, node |-> 0,
            loaded |-> Zero, index |-> 0, search_paths |-> <<>>, total |-> Zero,
            memory_utilization |-> Zero, compute_utilization |-> Zero,
            alone |-> FALSE]

\* the locals of every thread when thread t begins a call whose locals are
\* call_locals: whatever call is under way is alone no longer
BeginCall(t, call_locals) ==
    [u \in Threads |->
        IF u = t
        THEN [call_locals EXCEPT !.index = 1,
                                 !.alone = \A v \in Threads \ {t} : pc[v] = "idle"]
        ELSE [local[u] EXCEPT !.alone = FALSE]]

\* the dictionary get_performance_metrics returns; empty for every other call
NoMetrics == [memory_utilization |-> <<>>, compute_utilization |-> <<>>,
              quantum_efficiency |-> <<>>, optimization_cycles |-> 0]
NoResult == [kind |-> "none", exc |-> "", path |-> <<>>, metrics |-> NoMetrics]
Raised(e) == [kind |-> "raise", exc |-> e, path |-> <<>>, metrics |-> NoMetrics]
Returned(p) == [kind |-> "return", exc |-> "", path |-> p, metrics |-> NoMetrics]
ReturnedMetrics(m) == [kind |-> "metrics", exc |-> "", path |-> <<>>, metrics |-> m]
\* a call on the arguments args that returned a bool, or a list of paths
ReturnedBool(b, args) == [kind |-> "bool", exc |-> "", path |-> <<>>,
                          metrics |-> NoMetrics, value |-> b, args |-> args]
\* a call on the arguments args that returned a (level, node) pair
ReturnedPair(pair, args) == [kind |-> "pair", exc |-> "", path |-> <<>>,
                             metrics |-> NoMetrics, value |-> pair, args |-> args]
ReturnedPaths(ps) == [kind |-> "paths", exc |-> "", path |-> <<>>,
                      metrics |-> NoMetrics, paths |-> ps]

SessionTimeoutError == "QuantumSecurityError: Session timeout - security violation"
SizeExceededError == "QuantumSecurityError: Process size exceeds maximum allowed"
ResourceErrorExc == "ResourceError: Quantum memory allocation failed - insufficient resources"
MissingBalanceError == "AttributeError: no attribute '_quantum_memory_balance'"
KeyErrorExc == "KeyError: 'active_processes'"
\* what "/" raises on a zero divisor
ZeroDivisionErrorExc == "ZeroDivisionError: division by zero"
AllocationFailed == Str(<<"a", "l", "l", "o", "c", "a", "t", "i", "o", "n", "_",
                          "f", "a", "i", "l", "e", "d">>)

\* no constructor call under way
NoCtor == [cls |-> "none", state |-> "none"]

\* the state of the two optimizers after construction, the constructor of the
\* core optimizer having read its times from clock
Constructed(clock) ==
    /\ memory_fractal = _create_quantum_memory_tree(Self)
    /\ compute_fractal = _create_quantum_compute_tree(Self)
    /\ security_fractal = _create_security_fractal(Self, clock)
    /\ session_start = clock[0]
    /\ now = clock[depth * branches]
    /\ security_lock = NoThread
    /\ st_memory_fractal = _create_memory_tree(Self)
    /\ st_compute_fractal = _create_compute_tree(Self)
    /\ st_lock = NoThread
    /\ pc = [t \in Threads |-> "idle"]
    /\ local = [t \in Threads |-> NoLocal]
    /\ result = NoResult
    /\ placed = [count |-> 0, size |-> Zero]
    /\ allocations = 0
    /\ calls = 0
    /\ optimization_cycles = 0
    /\ st_optimization_cycles = 0
    /\ distributions = 0

Init ==
    /\ \E clock \in ConstructionClocks(depth * branches) : Constructed(clock)
    /\ ctor = NoCtor

\* the two optimizers after a construction during which the clock stood
\* still: the start of the runs in which no time is read (the stress-test
\* optimizer keeps none, the parse of a path reads none)
StillInit ==
    /\ Constructed(StillClock(depth * branches))
    /\ ctor = NoCtor

(***************************************************************************)
(* Core optimizer: the security gate.                                      *)
(***************************************************************************)
\* what a read of the clock can return: the clock never goes back
ClockReads == {current_time \in TimePoints : current_time >= now}

\* the session check gone: it never raises
_validate_session_never(current_time) == TRUE

\* the session check with the boundary moved: elapsed == timeout raises too
_validate_session_strict(current_time) ==
    (current_time - session_start) < SESSION_TIMEOUT

\* TRUE when _validate_session returns, FALSE when it raises
\* QuantumSecurityError("Session timeout - security violation"); current_time
\* is what its read of the clock returns
_validate_session(current_time) ==
    ~((current_time - session_start) > SESSION_TIMEOUT)

\* a Python list of length n accepts the indexes -n .. n - 1
ListHasIndex(i, n) == -n <= i /\ i < n

\* list[i]: a negative index counts from the end
ListIndex(i, n) == IF i < 0 THEN i + n ELSE i

\* the node check with a scan of exactly SCAN_MAX_AGE seconds refused
_validate_node_security_strict_age(level, node, current_time) ==
    IF ~(ListHasIndex(level, depth) /\ ListHasIndex(node, branches))
    THEN FALSE
    ELSE LET security_node ==
                 security_fractal[ListIndex(level, depth)][ListIndex(node, branches)]
         IN  IF \/ security_node.threat_level > MAX_THREAT_LEVEL
                \/ (current_time - security_node.last_scan) >= SCAN_MAX_AGE
             THEN FALSE
             ELSE security_node.security_score > MIN_SECURITY_SCORE

\* the node check without the scan age: threat level and score only
_validate_node_security_no_age(level, node, current_time) ==
    IF ~(ListHasIndex(level, depth) /\ ListHasIndex(node, branches))
    THEN FALSE
    ELSE LET security_node ==
                 security_fractal[ListIndex(level, depth)][ListIndex(node, branches)]
         IN  IF security_node.threat_level > MAX_THREAT_LEVEL
             THEN FALSE
             ELSE security_node.security_score > MIN_SECURITY_SCORE

\* lines 254-267, current_time being what the read of the clock returns; the
\* security tree has depth levels of branches nodes, an index outside it raises
\* IndexError, which the bare except turns into False
_validate_node_security(level, node, current_time) ==
    IF ~(ListHasIndex(level, depth) /\ ListHasIndex(node, branches))
    THEN FALSE
    ELSE LET security_node ==
                 security_fractal[ListIndex(level, depth)][ListIndex(node, branches)]
         IN  IF \/ security_node.threat_level > MAX_THREAT_LEVEL
                \/ (current_time - security_node.last_scan) > SCAN_MAX_AGE
             THEN FALSE
             ELSE security_node.security_score > MIN_SECURITY_SCORE

(***************************************************************************)
(* Core optimizer: the placement search.                                   *)
(***************************************************************************)
\* the (level, node) pairs in the order of the two nested loops
NodeOrder ==
    [i \in 1 .. (depth * branches) |-> <<(i - 1) \div branches, (i - 1) % branches>>]

\* line 234: node_info["memory_allocation"] * (1 - node_info["utilization"])
Available(node_info) ==
    FMul(node_info.memory_allocation, FSub(One, node_info.utilization))

\* line 235: quantum_capacity = available * (1.0 + (level * 0.1))
QuantumCapacity(node_info, level) == FMul(Available(node_info), QuantumBoost(level))

\* line 237 without the priority test
IsCandidate_no_priority(node_info, level, size, priority) ==
    GE(QuantumCapacity(node_info, level), size)

\* the test of line 237
IsCandidate(node_info, level, size, priority) ==
    /\ GE(QuantumCapacity(node_info, level), size)
    /\ node_info.quantum_priority >= priority

\* lines 229-238, one turn of the inner loop: search_paths after the visit of
\* the node (level, node), which adds (fractal_path, quantum_capacity, level);
\* current_time is what the clock returns to the security check of the node
VisitNode(search_paths, level, node, size, priority, current_time) ==
    IF /\ _validate_node_security(level, node, current_time)
       /\ IsCandidate(memory_fractal[level][node], level, size, priority)
    THEN Append(search_paths,
                <<memory_fractal[level][node].fractal_path,
                  QuantumCapacity(memory_fractal[level][node], level),
                  level>>)
    ELSE search_paths

\* the sort without reverse=True: the smallest key first
SortKeyGE_ascending(a, b) == LT(a[2], b[2]) \/ (a[2] = b[2] /\ a[3] <= b[3])

\* key=lambda x: (x[1], x[2]) compared for reverse=True: a goes before b
SortKeyGE(a, b) == GT(a[2], b[2]) \/ (a[2] = b[2] /\ a[3] >= b[3])

\* list.sort(key=..., reverse=True): stable, equal keys keep their order
RECURSIVE SortDescending(_)
SortDescending(s) ==
    IF Len(s) = 0 THEN <<>>
    ELSE LET x == s[Len(s)]
             r == SortDescending(SubSeq(s, 1, Len(s) - 1))
             k == Cardinality({i \in 1 .. Len(r) : SortKeyGE(r[i], x)})
         IN  SubSeq(r, 1, k) \o <<x>> \o SubSeq(r, k + 1, Len(r))

\* the end of the search falling back on the root node when nothing qualifies
_find_quantum_memory_path_fallback(search_paths) ==
    IF Len(search_paths) > 0
    THEN SortDescending(search_paths)[1][1]
    ELSE memory_fractal[0][0].fractal_path

\* lines 240-244: what the search returns for the list its loops have built,
\* <<>> for None
_find_quantum_memory_path(search_paths) ==
    IF Len(search_paths) > 0
    THEN SortDescending(search_paths)[1][1]
    ELSE <<>>

(***************************************************************************)
(* Core optimizer: quantum_memory_allocation, one caller thread t.         *)
(* The body runs under self._security_lock.  _emergency_cleanup takes no   *)
(* lock and the clock runs on, so every turn of the search loop, which     *)
(* reads the clock and one node, and every statement that writes the tree  *)
(* is a step of its own.                                                   *)
(***************************************************************************)
\* with self._security_lock: an RLock is free or already held by the caller
_security_lock_acquire(t) == security_lock = NoThread \/ security_lock = t

\* lines 183-187: the lock, the session check and the size check
quantum_memory_allocation(t, process_size, priority) ==
    /\ pc[t] = "idle"
    /\ _security_lock_acquire(t)
    /\ allocations < MaxAllocations
    /\ calls < MaxCalls
    /\ calls' = calls + 1
    /\ \E current_time \in ClockReads :
           /\ now' = current_time
           /\ IF ~_validate_session(current_time)
              THEN /\ result' = Raised(SessionTimeoutError)
                   /\ UNCHANGED <<pc, local, security_lock>>
              ELSE IF GT(process_size, MAX_MEMORY_ALLOCATION)
              THEN /\ result' = Raised(SizeExceededError)
                   /\ UNCHANGED <<pc, local, security_lock>>
              ELSE /\ pc' = [pc EXCEPT ![t] = "search"]
                   /\ local' = BeginCall(t, [NoLocal EXCEPT !.size = process_size,
                                                            !.priority = priority])
                   /\ security_lock' = t
                   /\ UNCHANGED result
    /\ UNCHANGED <<coreTrees, session_start, ctor, optimization_cycles, stVars,
                   allocations>>

\* lines 227-244, 192 and 194-195: one turn of the loops of the search, with
\* its read of the clock and of the node; the last turn ends the search, and
\* the call goes on with the path found or raises ResourceError (line 221)
qma_search(t) ==
    /\ pc[t] = "search"
    /\ \E current_time \in ClockReads :
         LET i == local[t].index
             search_paths == VisitNode(local[t].search_paths, NodeOrder[i][1],
                                       NodeOrder[i][2], local[t].size,
                                       local[t].priority, current_time)
             fractal_path == _find_quantum_memory_path(search_paths)
         IN  /\ now' = current_time
             /\ IF i < Len(NodeOrder)
                THEN /\ local' = [local EXCEPT ![t].index = i + 1,
                                               ![t].search_paths = search_paths]
                     /\ UNCHANGED <<pc, security_lock, allocations, result>>
                ELSE IF fractal_path # <<>>
                THEN /\ pc' = [pc EXCEPT ![t] = "append"]
                     /\ local' = [local EXCEPT
                            ![t].search_paths = search_paths,
                            ![t].path = fractal_path,
                            ![t].level = _parse_secure_path(fractal_path)[1],
                            ![t].node = _parse_secure_path(fractal_path)[2]]
                     /\ allocations' = allocations + 1
                     /\ UNCHANGED <<security_lock, result>>
                ELSE /\ result' = Raised(ResourceErrorExc)
                     /\ pc' = [pc EXCEPT ![t] = "idle"]
                     /\ local' = [local EXCEPT ![t] = NoLocal]
                     /\ security_lock' = NoThread
                     /\ UNCHANGED allocations
    /\ UNCHANGED <<coreTrees, session_start, ctor, optimization_cycles, stVars,
                   calls>>

\* line 205: active_processes.append(encrypted_process)
qma_append(t) ==
    /\ pc[t] = "append"
    /\ memory_fractal' =
           [memory_fractal EXCEPT ![local[t].level][local[t].node].active_processes =
               Append(@, [size |-> local[t].size, fractal_path |-> local[t].path])]
    /\ pc' = [pc EXCEPT ![t] = "load"]
    /\ UNCHANGED <<compute_fractal, security_fractal, session_start, now, ctor, optimization_cycles,
                   security_lock, stVars, allocations, calls, local, result>>

\* line 207, the read of utilization by "+="
qma_load(t) ==
    /\ pc[t] = "load"
    /\ local' = [local EXCEPT ![t].loaded =
                    memory_fractal[local[t].level][local[t].node].utilization]
    /\ pc' = [pc EXCEPT ![t] = "store"]
    /\ UNCHANGED <<coreTrees, session_start, now, ctor, optimization_cycles, security_lock, stVars, allocations, calls, result>>

\* allocated_memory = min(process_size, memory_allocation), line 206
AllocatedMemory(process_size, node_info) ==
    NumMin(process_size, node_info.memory_allocation)

\* the right-hand side of line 207 adding nothing
ReservedFraction_none(process_size, node_info) == Zero

\* line 207, the right-hand side: allocated_memory / memory_allocation
ReservedFraction(process_size, node_info) ==
    FDiv(AllocatedMemory(process_size, node_info), node_info.memory_allocation)

\* line 207, the division, the addition and the write of utilization by "+=";
\* on a node of memory_allocation 0 the division raises and the with statement
\* releases the lock
qma_store(t) ==
    /\ pc[t] = "store"
    /\ IF memory_fractal[local[t].level][local[t].node].memory_allocation = Zero
       THEN /\ result' = Raised(ZeroDivisionErrorExc)
            /\ pc' = [pc EXCEPT ![t] = "idle"]
            /\ local' = [local EXCEPT ![t] = NoLocal]
            /\ security_lock' = NoThread
            /\ UNCHANGED memory_fractal
       ELSE /\ memory_fractal' =
                   [memory_fractal EXCEPT ![local[t].level][local[t].node].utilization =
                       FAdd(local[t].loaded,
                            ReservedFraction(local[t].size,
                                memory_fractal[local[t].level][local[t].node]))]
            /\ pc' = [pc EXCEPT ![t] = "balance"]
            /\ UNCHANGED <<local, security_lock, result>>
    /\ UNCHANGED <<compute_fractal, security_fractal, session_start, now, ctor, optimization_cycles,
                   stVars, allocations, calls>>

\* the AttributeError of line 210 leaving the with block without releasing
\* the lock
_quantum_memory_balance_keeps_lock(t) ==
    /\ pc[t] = "balance"
    /\ result' = Raised(MissingBalanceError)
    /\ pc' = [pc EXCEPT ![t] = "idle"]
    /\ local' = [local EXCEPT ![t] = NoLocal]
    /\ UNCHANGED <<coreTrees, session_start, now, ctor, optimization_cycles, stVars,
                   allocations, calls, security_lock>>

\* line 210: self._quantum_memory_balance() is defined nowhere in the class, so the
\* call raises AttributeError; the with statement releases the lock
_quantum_memory_balance(t) ==
    /\ pc[t] = "balance"
    /\ result' = Raised(MissingBalanceError)
    /\ security_lock' = NoThread
    /\ pc' = [pc EXCEPT ![t] = "idle"]
    /\ local' = [local EXCEPT ![t] = NoLocal]
    /\ UNCHANGED <<coreTrees, session_start, now, ctor, optimization_cycles, stVars, allocations, calls>>

(***************************************************************************)
(* Core optimizer: _emergency_cleanup.  It takes no lock, so each of its   *)
(* statements on a node is a step of its own.                              *)
(***************************************************************************)
\* node["active_processes"] of line 327 finds its key
HasProcessList(node_info) == "active_processes" \in DOMAIN node_info

\* lines 321-323: the call begins; its loops stand before the first memory node
_emergency_cleanup(t) ==
    /\ pc[t] = "idle"
    /\ calls < MaxCalls
    /\ calls' = calls + 1
    /\ pc' = [pc EXCEPT ![t] = "cleanup_clear"]
    /\ local' = BeginCall(t, NoLocal)
    /\ UNCHANGED <<coreVars, now, ctor, optimization_cycles, stVars, allocations,
                   result>>

\* line 327 without the handler of lines 341-342: the KeyError reaches the
\* caller
cleanup_clear_raises(t) ==
    /\ pc[t] = "cleanup_clear"
    /\ LET level == NodeOrder[local[t].index][1]
           node == NodeOrder[local[t].index][2]
       IN  IF HasProcessList(memory_fractal[level][node])
           THEN /\ memory_fractal' =
                       [memory_fractal EXCEPT ![level][node].active_processes = <<>>]
                /\ pc' = [pc EXCEPT ![t] = "cleanup_reset"]
                /\ UNCHANGED <<local, result>>
           ELSE /\ result' = Raised(KeyErrorExc)
                /\ pc' = [pc EXCEPT ![t] = "idle"]
                /\ local' = [local EXCEPT ![t] = NoLocal]
                /\ UNCHANGED memory_fractal
    /\ UNCHANGED <<compute_fractal, security_fractal, session_start, now, ctor,
                   optimization_cycles, security_lock, stVars, allocations, calls>>

\* line 327: node["active_processes"].clear().  A node whose active_processes
\* key is missing raises KeyError; the handler of lines 341-342 logs it and the
\* call returns None with the rest of the sweep not done
cleanup_clear(t) ==
    /\ pc[t] = "cleanup_clear"
    /\ LET level == NodeOrder[local[t].index][1]
           node == NodeOrder[local[t].index][2]
       IN  IF HasProcessList(memory_fractal[level][node])
           THEN /\ memory_fractal' =
                       [memory_fractal EXCEPT ![level][node].active_processes = <<>>]
                /\ pc' = [pc EXCEPT ![t] = "cleanup_reset"]
                /\ UNCHANGED <<local, result>>
           ELSE /\ result' = Returned(<<>>)
                /\ pc' = [pc EXCEPT ![t] = "idle"]
                /\ local' = [local EXCEPT ![t] = NoLocal]
                /\ UNCHANGED memory_fractal
    /\ UNCHANGED <<compute_fractal, security_fractal, session_start, now, ctor,
                   optimization_cycles, security_lock, stVars, allocations, calls>>

\* the memory sweep leaving utilization as it is
cleanup_reset_keeps_utilization(t) ==
    /\ pc[t] = "cleanup_reset"
    /\ IF local[t].index < Len(NodeOrder)
       THEN /\ pc' = [pc EXCEPT ![t] = "cleanup_clear"]
            /\ local' = [local EXCEPT ![t].index = @ + 1]
       ELSE /\ pc' = [pc EXCEPT ![t] = "cleanup_compute"]
            /\ local' = [local EXCEPT ![t].index = 1]
    /\ UNCHANGED <<coreTrees, session_start, now, ctor,
                   optimization_cycles, security_lock, stVars, allocations, calls, result>>

\* line 328: node["utilization"] = 0.0; after the last memory node the loops
\* of the compute sweep begin
cleanup_reset(t) ==
    /\ pc[t] = "cleanup_reset"
    /\ memory_fractal' =
           [memory_fractal EXCEPT
               ![NodeOrder[local[t].index][1]][NodeOrder[local[t].index][2]].utilization
                   = Zero]
    /\ IF local[t].index < Len(NodeOrder)
       THEN /\ pc' = [pc EXCEPT ![t] = "cleanup_clear"]
            /\ local' = [local EXCEPT ![t].index = @ + 1]
       ELSE /\ pc' = [pc EXCEPT ![t] = "cleanup_compute"]
            /\ local' = [local EXCEPT ![t].index = 1]
    /\ UNCHANGED <<compute_fractal, security_fractal, session_start, now, ctor,
                   optimization_cycles, security_lock, stVars, allocations, calls, result>>

\* the compute sweep re-scanning the security node beside each compute node
cleanup_compute_rescans(t) ==
    /\ pc[t] = "cleanup_compute"
    /\ LET level == NodeOrder[local[t].index][1]
           node == NodeOrder[local[t].index][2]
       IN  /\ compute_fractal' =
                  [compute_fractal EXCEPT ![level][node].current_load = Zero]
           /\ security_fractal' =
                  [security_fractal EXCEPT ![level][node].last_scan = now,
                                           ![level][node].security_score = 100,
                                           ![level][node].threat_level = 0]
    /\ IF local[t].index < Len(NodeOrder)
       THEN /\ local' = [local EXCEPT ![t].index = @ + 1]
            /\ UNCHANGED <<pc, result>>
       ELSE /\ pc' = [pc EXCEPT ![t] = "idle"]
            /\ local' = [local EXCEPT ![t] = NoLocal]
            /\ result' = Returned(<<>>)
    /\ UNCHANGED <<memory_fractal, session_start, now, ctor, optimization_cycles,
                   security_lock, stVars, allocations, calls>>

\* lines 331-334, one turn of the loops: current_load = 0.0 on one compute
\* node (its load_history is not kept in the model).  After the last node
\* lines 337-339 clear the event list and log, and the call returns None
cleanup_compute(t) ==
    /\ pc[t] = "cleanup_compute"
    /\ compute_fractal' =
           [compute_fractal EXCEPT
               ![NodeOrder[local[t].index][1]][NodeOrder[local[t].index][2]].current_load
                   = Zero]
    /\ IF local[t].index < Len(NodeOrder)
       THEN /\ local' = [local EXCEPT ![t].index = @ + 1]
            /\ UNCHANGED <<pc, result>>
       ELSE /\ pc' = [pc EXCEPT ![t] = "idle"]
            /\ local' = [local EXCEPT ![t] = NoLocal]
            /\ result' = Returned(<<>>)
    /\ UNCHANGED <<memory_fractal, security_fractal, session_start, now, ctor,
                   optimization_cycles, security_lock, stVars, allocations, calls>>

(***************************************************************************)
(* Core optimizer: get_performance_metrics.  The body runs under           *)
(* self._security_lock; _emergency_cleanup may write the trees between two *)
(* reads of a sum, so every read of a utilization or of a current_load is  *)
(* a step of its own.  sum() adds the floats from left to right, starting  *)
(* from the int 0.                                                         *)
(***************************************************************************)
\* sum(node["quantum_efficiency"] ...), lines 289-293
EfficiencySum(tree) ==
    LET RECURSIVE Sum(_)
        Sum(i) == IF i = 0 THEN Zero
                  ELSE FAdd(Sum(i - 1),
                            tree[NodeOrder[i][1]][NodeOrder[i][2]].quantum_efficiency)
    IN  Sum(depth * branches)

\* x >= 0 rounded to the nearest integer, ties to the even one
RoundHalfEven(x) ==
    IF x.e >= 0 THEN Value(x)
    ELSE LET q == NatShiftRight(x.m, -x.e)
             rest == NatSub(x.m, NatShiftLeft(q, -x.e))
             half == NatCmp(rest, NatShiftLeft(<<1>>, (-x.e) - 1))
             up == half > 0 \/ (half = 0 /\ Limb(q, 1) % 2 = 1)
         IN  NatValue(IF up THEN NatAdd(q, <<1>>) ELSE q)

\* the sign a format writes before a number
SignOf(x) == IF x.neg THEN Str(<<"-">>) ELSE <<>>

\* f"{x:.1%}": x * 100 as a float, written with one digit after the point
FormatPercent1(x) ==
    LET scaled == FMul(x, PyInt(100))
        tenths == RoundHalfEven(Mul([scaled EXCEPT !.neg = FALSE], PyInt(10)))
    IN  SignOf(scaled) \o IntToStr(tenths \div 10) \o Str(<<".">>) \o IntToStr(tenths % 10)
            \o Str(<<"%">>)

\* f"{x:.3f}"
FormatFixed3(x) ==
    LET thousandths == RoundHalfEven(Mul([x EXCEPT !.neg = FALSE], PyInt(1000)))
        frac == thousandths % 1000
    IN  SignOf(x) \o IntToStr(thousandths \div 1000) \o Str(<<".">>)
            \o IntToStr(frac \div 100) \o IntToStr((frac \div 10) % 10)
            \o IntToStr(frac % 10)

\* the mean divided by depth only
MemoryUtilization_per_level(total) == FDiv(total, PyInt(depth))

\* lines 347-351 and 283-287: the sum of the utilizations over
\* (self.depth * self.branches)
MemoryUtilization(total) == FDiv(total, PyInt(depth * branches))

\* lines 353-357: the sum of the loads over (self.depth * self.branches)
ComputeUtilization(total) == FDiv(total, PyInt(depth * branches))

\* lines 283-295, from the sum of the utilizations on:
\* ((1.0 - mean utilization) + mean quantum_efficiency) / 2
_calculate_quantum_efficiency(total) ==
    LET memory_efficiency == FSub(One, MemoryUtilization(total))
        compute_efficiency ==
            FDiv(EfficiencySum(compute_fractal), PyInt(depth * branches))
    IN  FDiv(FAdd(memory_efficiency, compute_efficiency), PyInt(2))

\* line 346: the lock; the first sum stands before the first memory node
get_performance_metrics(t) ==
    /\ pc[t] = "idle"
    /\ _security_lock_acquire(t)
    /\ security_lock' = t
    /\ calls < MaxCalls
    /\ calls' = calls + 1
    /\ pc' = [pc EXCEPT ![t] = "metrics_utilization"]
    /\ local' = BeginCall(t, NoLocal)
    /\ UNCHANGED <<coreTrees, session_start, now, ctor, optimization_cycles, stVars,
                   allocations, result>>

\* lines 347-351: one read of the sum of the utilizations; after the last one
\* the mean is taken
metrics_utilization(t) ==
    /\ pc[t] = "metrics_utilization"
    /\ LET i == local[t].index
           total == FAdd(local[t].total,
                         memory_fractal[NodeOrder[i][1]][NodeOrder[i][2]].utilization)
       IN  IF i < Len(NodeOrder)
           THEN /\ local' = [local EXCEPT ![t].index = i + 1, ![t].total = total]
                /\ UNCHANGED pc
           ELSE /\ local' = [local EXCEPT
                       ![t].index = 1,
                       ![t].total = Zero,
                       ![t].memory_utilization = MemoryUtilization(total)]
                /\ pc' = [pc EXCEPT ![t] = "metrics_load"]
    /\ UNCHANGED <<coreVars, now, ctor, optimization_cycles, stVars, allocations, calls,
                   result>>

\* lines 353-357: one read of the sum of the loads of the compute tree; after
\* the last one the mean is taken
metrics_load(t) ==
    /\ pc[t] = "metrics_load"
    /\ LET i == local[t].index
           total == FAdd(local[t].total,
                         compute_fractal[NodeOrder[i][1]][NodeOrder[i][2]].current_load)
       IN  IF i < Len(NodeOrder)
           THEN /\ local' = [local EXCEPT ![t].index = i + 1, ![t].total = total]
                /\ UNCHANGED pc
           ELSE /\ local' = [local EXCEPT
                       ![t].index = 1,
                       ![t].total = Zero,
                       ![t].compute_utilization = ComputeUtilization(total)]
                /\ pc' = [pc EXCEPT ![t] = "metrics_efficiency"]
    /\ UNCHANGED <<coreVars, now, ctor, optimization_cycles, stVars, allocations, calls,
                   result>>

\* lines 359 and 283-295: one read of the sum of _calculate_quantum_efficiency;
\* after the last one lines 361-372 build the dictionary and the with
\* statement releases the lock
metrics_efficiency(t) ==
    /\ pc[t] = "metrics_efficiency"
    /\ LET i == local[t].index
           total == FAdd(local[t].total,
                         memory_fractal[NodeOrder[i][1]][NodeOrder[i][2]].utilization)
       IN  IF i < Len(NodeOrder)
           THEN /\ local' = [local EXCEPT ![t].index = i + 1, ![t].total = total]
                /\ UNCHANGED <<pc, security_lock, result>>
           ELSE /\ result' = ReturnedMetrics(
                       [memory_utilization |->
                            FormatPercent1(local[t].memory_utilization),
                        compute_utilization |->
                            FormatPercent1(local[t].compute_utilization),
                        quantum_efficiency |->
                            FormatFixed3(_calculate_quantum_efficiency(total)),
                        optimization_cycles |-> optimization_cycles])
                /\ pc' = [pc EXCEPT ![t] = "idle"]
                /\ local' = [local EXCEPT ![t] = NoLocal]
                /\ security_lock' = NoThread
    /\ UNCHANGED <<coreTrees, session_start, now, ctor, optimization_cycles, stVars,
                   allocations, calls>>

Next ==
    \/ \E t \in Threads, process_size \in Sizes, priority \in Priorities :
           quantum_memory_allocation(t, process_size, priority)
    \/ \E t \in Threads : qma_search(t)
    \/ \E t \in Threads : qma_append(t)
    \/ \E t \in Threads : qma_load(t)
    \/ \E t \in Threads : qma_store(t)
    \/ \E t \in Threads : _quantum_memory_balance(t)
    \/ \E t \in Threads : _emergency_cleanup(t)
    \/ \E t \in Threads : cleanup_clear(t)
    \/ \E t \in Threads : cleanup_reset(t)
    \/ \E t \in Threads : cleanup_compute(t)
    \/ \E t \in Threads : get_performance_metrics(t)
    \/ \E t \in Threads : metrics_utilization(t)
    \/ \E t \in Threads : metrics_load(t)
    \/ \E t \in Threads : metrics_efficiency(t)

Spec == Init /\ [][Next]_vars

\* the statements of quantum_memory_allocation that thread t, which holds the
\* lock, has still to run once its search and its division are done
BodyStep(t) == qma_append(t) \/ qma_load(t) \/ _quantum_memory_balance(t)

\* Spec with every thread that is inside the body getting to run: such a
\* thread holds the lock and waits for nothing, so the interpreter's thread
\* switching lets it take its next statement.  For qma_search and qma_store
\* the weak fairness is written out, WF_vars(A) being
\* []<>~ENABLED <<A>>_vars \/ []<><<A>>_vars, with ENABLED <<A>>_vars as the
\* state predicate it is equal to: the step is possible exactly when the
\* thread stands before it, and it always moves the thread on
FairSpec ==
    /\ Spec
    /\ \A t \in Threads :
           /\ WF_vars(BodyStep(t))
           /\ ([]<>(pc[t] # "search") \/ []<><<qma_search(t)>>_vars)
           /\ ([]<>(pc[t] # "store") \/ []<><<qma_store(t)>>_vars)

(***************************************************************************)
(* Stress-test optimizer: fractal_memory_allocation, one caller thread t.  *)
(* The whole body runs under self._lock.  The append and the read and the  *)
(* write of "utilization +=" are separate steps of the interpreter.        *)
(***************************************************************************)
\* the body entered without taking self._lock
_lock_acquire_unlocked(t) == TRUE

\* with self._lock: an RLock is free or already held by the caller
_lock_acquire(t) == st_lock = NoThread \/ st_lock = t

\* the sizes asked of the stress-test optimizer: those of the core optimizer,
\* the empty request and the smallest one
StressSizes == Sizes \cup {Zero, One}

\* the test of line 80
Fits(node_info, process_size, priority) ==
    /\ GE(Available(node_info), process_size)
    /\ node_info.priority >= priority

\* the first (level, node) of the two nested loops over the memory tree that
\* passes line 80, <<>> if none
FirstFit(tree, process_size, priority) ==
    LET fitting == SelectSeq(NodeOrder,
                       LAMBDA ln : Fits(tree[ln[1]][ln[2]], process_size, priority))
    IN  IF Len(fitting) > 0 THEN fitting[1] ELSE <<>>

\* lines 74-80 and 87
fractal_memory_allocation(t, process_size, priority) ==
    /\ pc[t] = "idle"
    /\ _lock_acquire(t)
    /\ allocations < MaxPlacements
    /\ LET found == FirstFit(st_memory_fractal, process_size, priority)
       IN  IF found # <<>>
           THEN /\ pc' = [pc EXCEPT ![t] = "st_append"]
                /\ local' = [local EXCEPT ![t] =
                       [NoLocal EXCEPT
                            !.size = process_size,
                            !.priority = priority,
                            !.path = st_memory_fractal[found[1]][found[2]].fractal_path,
                            !.level = found[1],
                            !.node = found[2]]]
                /\ st_lock' = t
                /\ allocations' = allocations + 1
                /\ UNCHANGED result
           ELSE /\ result' = Returned(AllocationFailed)
                /\ UNCHANGED <<pc, local, st_lock, allocations, calls>>
    /\ UNCHANGED <<coreVars, now, ctor, optimization_cycles, st_memory_fractal,
                   st_compute_fractal, st_optimization_cycles, distributions, placed,
                   calls>>

\* lines 81-84
fma_append(t) ==
    /\ pc[t] = "st_append"
    /\ st_memory_fractal' =
           [st_memory_fractal EXCEPT ![local[t].level][local[t].node].active_processes =
               Append(@, [size |-> local[t].size])]
    /\ pc' = [pc EXCEPT ![t] = "st_load"]
    /\ UNCHANGED <<coreVars, now, ctor, optimization_cycles, st_compute_fractal, st_optimization_cycles,
                   distributions, st_lock, placed, allocations, calls,
                   local, result>>

\* line 85, the read of utilization by "+="
fma_load(t) ==
    /\ pc[t] = "st_load"
    /\ local' = [local EXCEPT ![t].loaded =
                    st_memory_fractal[local[t].level][local[t].node].utilization]
    /\ pc' = [pc EXCEPT ![t] = "st_store"]
    /\ UNCHANGED <<coreVars, now, ctor, optimization_cycles, stVars, allocations, calls, result>>

\* line 85, the division and the write of utilization by "+=", and line 86.
\* On a node of memory_allocation 0, which only a request of size 0 fits, the
\* division raises ZeroDivisionError: the record of line 81 stays, nothing is
\* written, and the with statement releases the lock on the way out.
fma_store(t) ==
    /\ pc[t] = "st_store"
    /\ IF st_memory_fractal[local[t].level][local[t].node].memory_allocation = Zero
       THEN /\ result' = Raised(ZeroDivisionErrorExc)
            /\ UNCHANGED st_memory_fractal
       ELSE /\ st_memory_fractal' =
                   [st_memory_fractal EXCEPT ![local[t].level][local[t].node].utilization =
                       FAdd(local[t].loaded,
                            FDiv(local[t].size,
                                 st_memory_fractal[local[t].level][local[t].node]
                                     .memory_allocation))]
            /\ result' = Returned(local[t].path)
    /\ placed' = [count |-> placed.count + 1, size |-> Add(placed.size, local[t].size)]
    /\ st_lock' = NoThread
    /\ pc' = [pc EXCEPT ![t] = "idle"]
    /\ local' = [local EXCEPT ![t] = NoLocal]
    /\ UNCHANGED <<coreVars, now, ctor, optimization_cycles, st_compute_fractal, st_optimization_cycles,
                   distributions, allocations, calls>>

StressNext ==
    \/ \E t \in Threads, process_size \in StressSizes, priority \in Priorities :
           fractal_memory_allocation(t, process_size, priority)
    \/ \E t \in Threads : fma_append(t)
    \/ \E t \in Threads : fma_load(t)
    \/ \E t \in Threads : fma_store(t)

StressSpec == StillInit /\ [][StressNext]_vars

(***************************************************************************)
(* Stress-test optimizer: fractal_cpu_distribution and                     *)
(* optimize_system_wide.  Both bodies run wholly under self._lock, and so  *)
(* does every other method that touches the compute tree, so each call is  *)
(* one step.                                                               *)
(***************************************************************************)
\* line 99
NodeCapacity(node_info) == node_info.assigned_cores * CORE_COMPLEXITY

\* the compute capacity of the whole tree
TotalCapacity(tree) ==
    LET RECURSIVE Sum(_)
        Sum(i) == IF i = 0 THEN 0
                  ELSE NodeCapacity(tree[NodeOrder[i][1]][NodeOrder[i][2]]) + Sum(i - 1)
    IN  Sum(Len(NodeOrder))

\* the complexities asked for: none, a part of the first node, the first node
\* and half a core of the second, and more than the whole tree takes
Complexities ==
    {-1, 0, CORE_COMPLEXITY \div 4,
     NodeCapacity(_create_compute_tree(Self)[0][0]) + CORE_COMPLEXITY \div 2,
     TotalCapacity(_create_compute_tree(Self)) + CORE_COMPLEXITY \div 4}

\* the loops of lines 95-105 from the i-th node of the nested loops on, skipping
\* the test of line 97: every node is visited whatever remains
RECURSIVE Distribute_no_break(_, _, _, _)
Distribute_no_break(tree, i, remaining_complexity, assigned_paths) ==
    IF i > Len(NodeOrder)
    THEN [tree |-> tree, assigned_paths |-> assigned_paths]
    ELSE LET level == NodeOrder[i][1]
             node == NodeOrder[i][2]
             node_capacity == NodeCapacity(tree[level][node])
             assign_complexity == Min(remaining_complexity, node_capacity)
         IN  Distribute_no_break(
                 [tree EXCEPT ![level][node].current_load =
                     FAdd(@, FDiv(PyInt(assign_complexity), PyInt(node_capacity)))],
                 i + 1,
                 remaining_complexity - assign_complexity,
                 Append(assigned_paths, tree[level][node].fractal_path))

\* the loops of lines 95-105 from the i-th node of the nested loops on; once
\* remaining_complexity <= 0 every inner loop breaks at its first node
RECURSIVE Distribute(_, _, _, _)
Distribute(tree, i, remaining_complexity, assigned_paths) ==
    IF i > Len(NodeOrder) \/ remaining_complexity <= 0
    THEN [tree |-> tree, assigned_paths |-> assigned_paths]
    ELSE LET level == NodeOrder[i][1]
             node == NodeOrder[i][2]
             node_capacity == NodeCapacity(tree[level][node])
             assign_complexity == Min(remaining_complexity, node_capacity)
         IN  IF assign_complexity > 0
             THEN Distribute(
                      [tree EXCEPT ![level][node].current_load =
                          FAdd(@, FDiv(PyInt(assign_complexity), PyInt(node_capacity)))],
                      i + 1,
                      remaining_complexity - assign_complexity,
                      Append(assigned_paths, tree[level][node].fractal_path))
             ELSE Distribute(tree, i + 1, remaining_complexity, assigned_paths)

\* lines 89-107
fractal_cpu_distribution(t, computation_complexity) ==
    /\ pc[t] = "idle"
    /\ _lock_acquire(t)
    /\ distributions < MaxDistributions
    /\ LET done == Distribute(st_compute_fractal, 1, computation_complexity, <<>>)
       IN  /\ st_compute_fractal' = done.tree
           /\ result' = ReturnedPaths(done.assigned_paths)
    /\ distributions' = distributions + 1
    /\ UNCHANGED <<coreVars, now, ctor, optimization_cycles, st_memory_fractal,
                   st_lock, placed, st_optimization_cycles, allocations, calls, pc, local>>

\* lines 168-171 on one node, with the node's load taken off as well
Rebalanced_resets_load(node_info) ==
    IF GT(node_info.current_load, HIGH_LOAD)
    THEN [node_info EXCEPT !.efficiency = FMul(@, SHRINK), !.current_load = Zero]
    ELSE IF LT(node_info.current_load, LOW_LOAD)
         THEN [node_info EXCEPT !.efficiency = FMul(@, GROW)]
         ELSE node_info

\* lines 168-171 on one node
Rebalanced(node_info) ==
    IF GT(node_info.current_load, HIGH_LOAD)
    THEN [node_info EXCEPT !.efficiency = FMul(@, SHRINK)]
    ELSE IF LT(node_info.current_load, LOW_LOAD)
         THEN [node_info EXCEPT !.efficiency = FMul(@, GROW)]
         ELSE node_info

\* the loops of lines 166-171 over the compute tree
RebalancedTree(tree) ==
    [level \in DOMAIN tree |->
        [node \in DOMAIN tree[level] |-> Rebalanced(tree[level][node])]]

\* lines 161-171; the call returns None
optimize_system_wide(t) ==
    /\ pc[t] = "idle"
    /\ _lock_acquire(t)
    /\ st_optimization_cycles < MaxCycles
    /\ st_optimization_cycles' = st_optimization_cycles + 1
    /\ st_compute_fractal' = RebalancedTree(st_compute_fractal)
    /\ result' = Returned(<<>>)
    /\ UNCHANGED <<coreVars, now, ctor, optimization_cycles, st_memory_fractal,
                   st_lock, placed, distributions, allocations, calls, pc, local>>

ComputeNext ==
    \/ \E t \in Threads, computation_complexity \in Complexities :
           fractal_cpu_distribution(t, computation_complexity)
    \/ \E t \in Threads : optimize_system_wide(t)

ComputeSpec == StillInit /\ [][ComputeNext]_vars

(***************************************************************************)
(* Construction: one call of __init__ of either class on given arguments.  *)
(* Before the call no attribute of the object exists (<<>>).               *)
(***************************************************************************)
DepthError == "QuantumSecurityError: Depth must be between 3 and 8"
BranchesError == "QuantumSecurityError: Branches must be between 2 and 16"
SecurityLevelError == "QuantumSecurityError: Security level must be between 1 and 5"

\* the parameter check without the upper limit on branches
_validate_parameters_no_branch_limit(depth_arg, branches_arg, security_level) ==
    IF ~(MIN_FRACTAL_DEPTH <= depth_arg /\ depth_arg <= MAX_FRACTAL_DEPTH)
    THEN DepthError
    ELSE IF ~(MIN_FRACTAL_BRANCHES <= branches_arg)
    THEN BranchesError
    ELSE IF ~(MIN_SECURITY_LEVEL <= security_level
              /\ security_level <= MAX_SECURITY_LEVEL)
    THEN SecurityLevelError
    ELSE ""

\* the exception _validate_parameters raises, "" when it returns
_validate_parameters(depth_arg, branches_arg, security_level) ==
    IF ~(MIN_FRACTAL_DEPTH <= depth_arg /\ depth_arg <= MAX_FRACTAL_DEPTH)
    THEN DepthError
    ELSE IF ~(MIN_FRACTAL_BRANCHES <= branches_arg
              /\ branches_arg <= MAX_FRACTAL_BRANCHES)
    THEN BranchesError
    ELSE IF ~(MIN_SECURITY_LEVEL <= security_level
              /\ security_level <= MAX_SECURITY_LEVEL)
    THEN SecurityLevelError
    ELSE ""

\* the constructor calls: the core class takes (depth, branches, security_level),
\* the stress-test class (depth, branches); both read the memory size from psutil
CtorCalls ==
    [cls : {"core"}, depth : Depths, branches : BranchCounts,
     security_level : SecurityLevels, system_ram : SystemRam,
     state : {"new"}, total_ram : {<<>>}]
    \cup
    [cls : {"stress"}, depth : Depths, branches : BranchCounts,
     security_level : {MIN_SECURITY_LEVEL}, system_ram : SystemRam,
     state : {"new"}, total_ram : {<<>>}]

BuildInit ==
    /\ ctor \in CtorCalls
    /\ memory_fractal = <<>>
    /\ compute_fractal = <<>>
    /\ security_fractal = <<>>
    /\ session_start = 0
    /\ now = 0
    /\ security_lock = NoThread
    /\ st_memory_fractal = <<>>
    /\ st_compute_fractal = <<>>
    /\ st_lock = NoThread
    /\ pc = [t \in Threads |-> "idle"]
    /\ local = [t \in Threads |-> NoLocal]
    /\ result = NoResult
    /\ placed = [count |-> 0, size |-> Zero]
    /\ allocations = 0
    /\ calls = 0
    /\ optimization_cycles = 0
    /\ st_optimization_cycles = 0
    /\ distributions = 0

\* core, lines 46-74
__init__ ==
    /\ ctor.cls = "core"
    /\ ctor.state = "new"
    /\ LET exc == _validate_parameters(ctor.depth, ctor.branches, ctor.security_level)
           self == [depth |-> ctor.depth, branches |-> ctor.branches,
                    total_ram |-> _get_secure_ram_allocation(ctor.system_ram),
                    cpu_cores |-> cpu_cores]
       IN  IF exc # ""
           THEN /\ ctor' = [ctor EXCEPT !.state = "raised"]
                /\ result' = Raised(exc)
                /\ UNCHANGED <<coreTrees, session_start, now, optimization_cycles>>
           ELSE \E clock \in ConstructionClocks(ctor.depth * ctor.branches) :
                /\ ctor' = [ctor EXCEPT !.state = "built",
                                        !.total_ram = self.total_ram]
                /\ session_start' = clock[0]
                /\ optimization_cycles' = 0
                /\ memory_fractal' = _create_quantum_memory_tree(self)
                /\ compute_fractal' = _create_quantum_compute_tree(self)
                /\ security_fractal' = _create_security_fractal(self, clock)
                /\ now' = clock[ctor.depth * ctor.branches]
                /\ result' = Returned(<<>>)
    /\ UNCHANGED <<security_lock, stVars, pc, local, allocations, calls>>

\* stress-test optimizer, lines 17-27: no check of the arguments
stress__init__ ==
    /\ ctor.cls = "stress"
    /\ ctor.state = "new"
    /\ LET self == [depth |-> ctor.depth, branches |-> ctor.branches,
                    total_ram |-> _get_safe_ram(ctor.system_ram),
                    cpu_cores |-> cpu_cores]
       IN  /\ ctor' = [ctor EXCEPT !.state = "built", !.total_ram = self.total_ram]
           /\ st_memory_fractal' = _create_memory_tree(self)
           /\ st_compute_fractal' = _create_compute_tree(self)
           /\ st_optimization_cycles' = 0
           /\ result' = Returned(<<>>)
    /\ UNCHANGED <<coreVars, now, st_lock, placed, pc, local, allocations, calls,
                   optimization_cycles, distributions>>

BuildNext ==
    \/ __init__
    \/ stress__init__

BuildSpec == BuildInit /\ [][BuildNext]_vars

(***************************************************************************)
(* _validate_node_security on the optimizer as its constructor leaves it:  *)
(* the security tree holds what _create_security_fractal wrote (score      *)
(* 100.0, threat level 0, the scan times of the construction clock), the   *)
(* clock runs over TimePoints, and the function is called on indexes       *)
(* inside and outside the tree.                                            *)
(***************************************************************************)
\* indexes around the two ends of a list of length n
ListIndexes(n) == {-(n + 1), -n, -1, 0, n - 1, n}

\* a call of _validate_node_security(level, node); it takes no lock, and it
\* reads the clock once it has found the node
validate_node_security_call(level, node) ==
    /\ \E current_time \in ClockReads :
           /\ now' = IF ListHasIndex(level, depth) /\ ListHasIndex(node, branches)
                     THEN current_time ELSE now
           /\ result' = ReturnedBool(_validate_node_security(level, node, current_time),
                                     <<level, node>>)
    /\ UNCHANGED <<coreVars, ctor, optimization_cycles, stVars, allocations, calls,
                   pc, local>>

ScanNext ==
    \E level \in ListIndexes(depth), node \in ListIndexes(branches) :
        validate_node_security_call(level, node)

ScanSpec == Init /\ [][ScanNext]_vars

(***************************************************************************)
(* Paths as functions of (level, node): a path is generated for a node of  *)
(* the largest tree _validate_parameters lets through, with the prefix of  *)
(* one of the three trees, and parsed back.                                *)
(***************************************************************************)
PathPrefixes == {Str(<<"M">>), Str(<<"C">>), Str(<<"S">>)}

\* _parse_secure_path(_generate_secure_path(level, node, prefix))
parse_generated_path(level, node, prefix) ==
    /\ result' = ReturnedPair(_parse_secure_path(_generate_secure_path(level, node, prefix)),
                              <<level, node, prefix>>)
    /\ UNCHANGED <<coreVars, now, ctor, optimization_cycles, stVars, allocations, calls,
                   pc, local>>

PathNext ==
    \E level \in 0 .. (MAX_FRACTAL_DEPTH - 1), node \in 0 .. (MAX_FRACTAL_BRANCHES - 1),
       prefix \in PathPrefixes :
        parse_generated_path(level, node, prefix)

PathSpec == StillInit /\ [][PathNext]_vars

(***************************************************************************)
(* _emergency_cleanup on trees that are not as the constructor left them:  *)
(* every memory node holds one record, every compute node carries load,    *)
(* and any set of memory nodes has lost its active_processes key.          *)
(***************************************************************************)
\* a memory tree with one record on every node and the key gone on the nodes
\* at the places in damaged
DamagedTree(damaged) ==
    LET loaded ==
            [level \in Levels |-> [node \in Nodes |->
                [_create_quantum_memory_tree(Self)[level][node] EXCEPT
                     !.active_processes =
                         <<[size |-> One,
                            fractal_path |-> _generate_secure_path(level, node, Str(<<"M">>))]>>,
                     !.utilization =
                         ReservedFraction(One,
                             _create_quantum_memory_tree(Self)[level][node])]]]
    IN  [level \in Levels |-> [node \in Nodes |->
            IF (level * branches + node + 1) \in damaged
            THEN [f \in (DOMAIN loaded[level][node]) \ {"active_processes"} |->
                      loaded[level][node][f]]
            ELSE loaded[level][node]]]

CleanupInit ==
    /\ \E damaged \in SUBSET (1 .. Len(NodeOrder)) :
           memory_fractal = DamagedTree(damaged)
    /\ compute_fractal =
           [level \in Levels |-> [node \in Nodes |->
               [_create_quantum_compute_tree(Self)[level][node] EXCEPT
                    !.current_load = Half]]]
    /\ security_fractal = _create_security_fractal(Self, StillClock(depth * branches))
    /\ session_start = 0
    /\ now = 0
    /\ security_lock = NoThread
    /\ st_memory_fractal = _create_memory_tree(Self)
    /\ st_compute_fractal = _create_compute_tree(Self)
    /\ st_lock = NoThread
    /\ pc = [t \in Threads |-> "idle"]
    /\ local = [t \in Threads |-> NoLocal]
    /\ result = NoResult
    /\ placed = [count |-> 0, size |-> Zero]
    /\ allocations = 0
    /\ calls = 0
    /\ optimization_cycles = 0
    /\ st_optimization_cycles = 0
    /\ distributions = 0
    /\ ctor = NoCtor

CleanupNext ==
    \/ \E t \in Threads : _emergency_cleanup(t)
    \/ \E t \in Threads : cleanup_clear(t)
    \/ \E t \in Threads : cleanup_reset(t)
    \/ \E t \in Threads : cleanup_compute(t)

CleanupSpec == CleanupInit /\ [][CleanupNext]_vars

(***************************************************************************)
(* Properties.                                                             *)
(***************************************************************************)
AllNodes == {<<level, node>> : level \in Levels, node \in Nodes}

\* the records on the lists of a memory tree, counted
TotalRecords(tree) ==
    LET RECURSIVE Sum(_)
        Sum(i) == IF i = 0 THEN 0
                  ELSE Len(tree[NodeOrder[i][1]][NodeOrder[i][2]].active_processes)
                       + Sum(i - 1)
    IN  Sum(depth * branches)

\* utilization * memory_allocation summed over the nodes of a tree, as the
\* real number it is: what the tree has committed
TotalCommitted(tree) ==
    LET RECURSIVE Sum(_)
        Sum(i) == IF i = 0 THEN Zero
                  ELSE Add(Sum(i - 1),
                           Mul(tree[NodeOrder[i][1]][NodeOrder[i][2]].utilization,
                               tree[NodeOrder[i][1]][NodeOrder[i][2]].memory_allocation))
    IN  Sum(depth * branches)

\* the session has run out for a call that reads current_time from the clock
SessionExpired(current_time) == (current_time - session_start) > SESSION_TIMEOUT

\* no call is under way
Quiescent == \A t \in Threads : pc[t] = "idle"

\* the search of thread t's call of quantum_memory_allocation found a node in
\* this step
Placed(t) == pc[t] = "search" /\ pc'[t] = "append"

\* the node that call is about to commit on
ChosenNode(t) == memory_fractal[local'[t].level][local'[t].node]

\* the memory node an entry (fractal_path, quantum_capacity, level) of
\* search_paths was made for
EntryNode(entry) ==
    memory_fractal[_parse_secure_path(entry[1])[1]][_parse_secure_path(entry[1])[2]]

\* C1: every memory node's utilization stays within [0, 1] after any sequence of
\* allocation calls and cleanups.
C1_UtilizationInRange ==
    \A ln \in AllNodes :
        /\ GE(memory_fractal[ln[1]][ln[2]].utilization, Zero)
        /\ LE(memory_fractal[ln[1]][ln[2]].utilization, One)

\* C2 as claimed: once every concurrent caller of fractal_memory_allocation has
\* returned, the number of allocation records over all nodes equals the number of
\* calls that were placed and the committed size, the sum over the nodes of
\* utilization times memory_allocation, equals the sum of the sizes of those calls.
C2_NoLostAllocation ==
    Quiescent =>
        /\ TotalRecords(st_memory_fractal) = placed.count
        /\ TotalCommitted(st_memory_fractal) = placed.size

\* the distance of two numbers
Distance(x, y) == [Sub(x, y) EXCEPT !.neg = FALSE]

\* the sizes of the records of a list, added up
RECURSIVE RecordedSize(_)
RecordedSize(records) ==
    IF Len(records) = 0 THEN Zero
    ELSE Add(RecordedSize(SubSeq(records, 1, Len(records) - 1)),
             records[Len(records)].size)

\* the sizes of the records of all nodes of a tree, added up
TotalRecorded(tree) ==
    LET RECURSIVE Sum(_)
        Sum(i) == IF i = 0 THEN Zero
                  ELSE Add(Sum(i - 1),
                           RecordedSize(tree[NodeOrder[i][1]][NodeOrder[i][2]]
                                            .active_processes))
    IN  Sum(depth * branches)

\* the utilization that line 85 of the stress-test optimizer, run from 0.0 once
\* for each record of the list in the order of the list, leaves on a node:
\* each run adds the float quotient size / memory_allocation in float arithmetic
RECURSIVE AccumulatedUtilization(_, _)
AccumulatedUtilization(records, memory_allocation) ==
    IF Len(records) = 0 THEN Zero
    ELSE FAdd(AccumulatedUtilization(SubSeq(records, 1, Len(records) - 1),
                                     memory_allocation),
              FDiv(records[Len(records)].size, memory_allocation))

\* C2 amended: once every caller has returned, the number of allocation records
\* equals the number of calls that were placed, the sizes the records hold add
\* up to exactly the sum of the sizes of those calls, and every node's
\* utilization is exactly the float sum, in the order of its records, of their
\* size / memory_allocation (on a node of memory_allocation 0 it stays 0): no
\* update is lost or made twice, and utilization times memory_allocation differs
\* from the sum of the sizes only by the rounding of those float operations.
C2_NoLostAllocationUpToRounding ==
    Quiescent =>
        /\ TotalRecords(st_memory_fractal) = placed.count
        /\ TotalRecorded(st_memory_fractal) = placed.size
        /\ \A ln \in AllNodes :
               st_memory_fractal[ln[1]][ln[2]].utilization =
                   IF st_memory_fractal[ln[1]][ln[2]].memory_allocation = Zero
                   THEN Zero
                   ELSE AccumulatedUtilization(
                            st_memory_fractal[ln[1]][ln[2]].active_processes,
                            st_memory_fractal[ln[1]][ln[2]].memory_allocation)

\* two calls were placed by the callers on one node, whose float utilization
\* times its memory_allocation is not their size, and all have returned
C2_Witness ==
    /\ Quiescent
    /\ placed.count >= 2
    /\ GE(placed.size, PyInt(2))
    /\ \E ln \in AllNodes : Len(st_memory_fractal[ln[1]][ln[2]].active_processes) >= 2
    /\ TotalCommitted(st_memory_fractal) # placed.size

\* C3: a call of quantum_memory_allocation that finds the session expired raises
\* the session error and leaves the memory, compute and security trees as they
\* were, whatever capacity the nodes have.
C3_ExpiredSessionRejected ==
    [][\A t \in Threads, process_size \in Sizes, priority \in Priorities :
          (quantum_memory_allocation(t, process_size, priority)
               /\ SessionExpired(now')) =>
              /\ result' = Raised(SessionTimeoutError)
              /\ pc'[t] = "idle"
              /\ memory_fractal' = memory_fractal
              /\ compute_fractal' = compute_fractal
              /\ security_fractal' = security_fractal]_vars

\* a call was rejected for the session while a node still had spare capacity
C3_Witness ==
    /\ result = Raised(SessionTimeoutError)
    /\ SessionExpired(now)
    /\ \E ln \in AllNodes : GE(Available(memory_fractal[ln[1]][ln[2]]), One)

\* C4 as claimed: a call passes the session check exactly when elapsed < timeout
\* (a call at elapsed == timeout raises the session error).
C4_ValidIffBeforeTimeout ==
    [][\A t \in Threads, process_size \in Sizes, priority \in Priorities :
          quantum_memory_allocation(t, process_size, priority) =>
              ((result' = Raised(SessionTimeoutError) /\ pc'[t] = "idle")
                  <=> ~((now' - session_start) < SESSION_TIMEOUT))]_vars

\* C4 amended: a call passes the session check exactly when elapsed <= timeout, and
\* an expired session never becomes valid again: session_start never changes and
\* the clock never goes back.
C4_ValidIffNotAfterTimeout ==
    /\ [][\A t \in Threads, process_size \in Sizes, priority \in Priorities :
             quantum_memory_allocation(t, process_size, priority) =>
                 ((result' = Raised(SessionTimeoutError) /\ pc'[t] = "idle")
                     <=> ~((now' - session_start) <= SESSION_TIMEOUT))]_vars
    /\ [][SessionExpired(now) => SessionExpired(now')]_vars

\* a call that read elapsed == timeout has gone past the session check and stands
\* before the first node of its search
C4_Witness ==
    \E t \in Threads :
        /\ pc[t] = "search"
        /\ local[t].index = 1
        /\ now - session_start = SESSION_TIMEOUT

\* C5: a call on a valid session for which the search found a candidate returns a
\* handle naming the path of the committed node and raises nothing.
C5_PlacedCallReturnsHandle ==
    [][\A t \in Threads :
          (pc[t] \in {"append", "load", "store", "balance"} /\ pc'[t] = "idle") =>
              /\ result'.kind = "return"
              /\ result'.path = local[t].path]_vars

\* C6: committing an allocation of size s appends exactly one record to one memory
\* node and raises that node's utilization by exactly s / memory_allocation; every
\* other memory node, every compute node and every security node is unchanged.
C6_CommitChangesOneNode ==
    [][\A t \in Threads :
          /\ qma_append(t) =>
                /\ \A ln \in AllNodes :
                       memory_fractal'[ln[1]][ln[2]].active_processes =
                           IF ln = <<local[t].level, local[t].node>>
                           THEN Append(memory_fractal[ln[1]][ln[2]].active_processes,
                                       [size |-> local[t].size,
                                        fractal_path |-> local[t].path])
                           ELSE memory_fractal[ln[1]][ln[2]].active_processes
                /\ UNCHANGED <<compute_fractal, security_fractal>>
          /\ qma_store(t) =>
                /\ \A ln \in AllNodes :
                       memory_fractal'[ln[1]][ln[2]].utilization =
                           IF ln = <<local[t].level, local[t].node>>
                           THEN FAdd(memory_fractal[ln[1]][ln[2]].utilization,
                                     FDiv(local[t].size,
                                          memory_fractal[ln[1]][ln[2]].memory_allocation))
                           ELSE memory_fractal[ln[1]][ln[2]].utilization
                /\ UNCHANGED <<compute_fractal, security_fractal>>]_vars

\* C7 as claimed: the node chosen by a call that ran with no other call beside
\* it has the largest available capacity among the candidates, and the deepest
\* level among those of equal available capacity.
C7_TopByAvailable ==
    [][\A t \in Threads :
          (Placed(t) /\ local[t].alone) =>
              \A j \in 1 .. Len(local'[t].search_paths) :
                  LET entry == local'[t].search_paths[j]
                  IN  \/ GT(Available(ChosenNode(t)), Available(EntryNode(entry)))
                      \/ /\ Available(ChosenNode(t)) = Available(EntryNode(entry))
                         /\ local'[t].level >= entry[3]]_vars

\* C7 amended: the chosen node is the candidate with the largest quantum capacity,
\* the float available * (1.0 + level * 0.1) the search recorded for it; among
\* candidates of equal quantum capacity it is on the deepest level, and among
\* those of equal level it is the one the loops visited first.  When no other
\* call ran beside the search, what the search recorded of a candidate is what
\* the node has when the search ends, and the node passes the test of line 237.
C7_TopByQuantumCapacity ==
    [][\A t \in Threads :
          Placed(t) =>
              LET search_paths == local'[t].search_paths
              IN  /\ \E k \in 1 .. Len(search_paths) :
                         /\ search_paths[k][1] = local'[t].path
                         /\ ChosenNode(t).fractal_path = local'[t].path
                         /\ \A j \in 1 .. Len(search_paths) :
                                \/ GT(search_paths[k][2], search_paths[j][2])
                                \/ /\ search_paths[k][2] = search_paths[j][2]
                                   /\ search_paths[k][3] > search_paths[j][3]
                                \/ /\ search_paths[k][2] = search_paths[j][2]
                                   /\ search_paths[k][3] = search_paths[j][3]
                                   /\ k <= j
                  /\ local[t].alone =>
                         \A j \in 1 .. Len(search_paths) :
                             /\ search_paths[j][2] =
                                    QuantumCapacity(EntryNode(search_paths[j]),
                                                    search_paths[j][3])
                             /\ IsCandidate(EntryNode(search_paths[j]),
                                            search_paths[j][3], local[t].size,
                                            local[t].priority)]_vars

\* a call that ran alone was placed on a node although another candidate had more
\* available capacity
C7_Witness ==
    \E t \in Threads :
        /\ pc[t] = "append"
        /\ local[t].alone
        /\ \E j \in 1 .. Len(local[t].search_paths) :
               GT(Available(EntryNode(local[t].search_paths[j])),
                  Available(memory_fractal[local[t].level][local[t].node]))

\* C8: an allocation of size s is placed only on a node whose available capacity
\* at the time of the call, memory_allocation * (1 - utilization), is at least s
\* (the call running with no other call beside it).
C8_PlacedWithinAvailable ==
    [][\A t \in Threads :
          (Placed(t) /\ local[t].alone) =>
              GE(Available(ChosenNode(t)), local[t].size)]_vars

\* C9 as claimed: a request of priority p is placed only on a node whose priority
\* floor, level + 1, is at least p; so no request with p > depth is placed.
C9_FloorIsLevelPlusOne ==
    [][\A t \in Threads :
          Placed(t) =>
              /\ local'[t].level + 1 >= local[t].priority
              /\ local[t].priority <= depth]_vars

\* C9 amended: the priority floor of the memory node (level, node) is its
\* quantum_priority, level * 10 + node from construction on; a request of priority
\* p is placed only on a node with quantum_priority >= p, so no request with
\* p > (depth - 1) * 10 + branches - 1 is placed.
C9_FloorIsQuantumPriority ==
    /\ [](\A ln \in AllNodes :
              memory_fractal[ln[1]][ln[2]].quantum_priority = ln[1] * 10 + ln[2])
    /\ [][\A t \in Threads :
             Placed(t) =>
                 /\ ChosenNode(t).quantum_priority >= local[t].priority
                 /\ local[t].priority <= (depth - 1) * 10 + (branches - 1)]_vars

\* a request with priority above depth was placed, on a node whose quantum_priority
\* reaches it
C9_Witness ==
    \E t \in Threads :
        /\ pc[t] = "append"
        /\ local[t].priority > depth
        /\ memory_fractal[local[t].level][local[t].node].quantum_priority
               >= local[t].priority

\* C10: a node that _validate_node_security rejects is never chosen by the
\* placement (the chosen node passed the check at a read of the clock the search
\* made), and the exclusion is temporary: from every state in which no call is
\* under way and a node is rejected, some operation of the allocator makes the
\* node eligible again.
C10_ExclusionIsTemporary ==
    /\ [][\A t \in Threads :
             Placed(t) =>
                 \E current_time \in TimePoints :
                     /\ current_time <= now'
                     /\ _validate_node_security(local'[t].level, local'[t].node,
                                                current_time)]_vars
    /\ [](\A ln \in AllNodes :
              (Quiescent /\ ~_validate_node_security(ln[1], ln[2], now)) =>
                  ENABLED (Next /\ _validate_node_security(ln[1], ln[2], now)'))

\* no node of the memory tree qualifies as a candidate for the request when the
\* clock reads current_time
NoCandidate(process_size, priority, current_time) ==
    \A ln \in AllNodes :
        ~(/\ _validate_node_security(ln[1], ln[2], current_time)
          /\ IsCandidate(memory_fractal[ln[1]][ln[2]], ln[1], process_size, priority))

\* no turn of the search changes a memory node's list or utilization, and a
\* search that ends with no node on its list raises ResourceError (insufficient
\* resources) and releases the lock
EmptySearchRaisesResourceError(t) ==
    qma_search(t) =>
        /\ memory_fractal' = memory_fractal
        /\ (/\ local[t].index = Len(NodeOrder)
            /\ VisitNode(local[t].search_paths,
                         NodeOrder[Len(NodeOrder)][1],
                         NodeOrder[Len(NodeOrder)][2],
                         local[t].size, local[t].priority, now') = <<>>) =>
               /\ result' = Raised(ResourceErrorExc)
               /\ pc'[t] = "idle"
               /\ security_lock' = NoThread

\* C11 as claimed: a call made on a valid session when no node qualifies as a
\* candidate leaves the memory tree as it was and fails with ResourceError, that
\* is, it goes on to its search, and the search that finds no node raises
\* ResourceError.
C11_NoCandidateIsResourceError ==
    [][\A t \in Threads :
          /\ EmptySearchRaisesResourceError(t)
          /\ \A process_size \in Sizes, priority \in Priorities :
                 (quantum_memory_allocation(t, process_size, priority)
                      /\ ~SessionExpired(now')
                      /\ NoCandidate(process_size, priority, now')) =>
                     /\ memory_fractal' = memory_fractal
                     /\ pc'[t] = "search"]_vars

\* C11 as the code has it: a call made when no node qualifies as a candidate
\* leaves the memory tree as it was and fails: with the session error if the
\* session has timed out, with the size error if the size is above
\* MAX_MEMORY_ALLOCATION, and otherwise with ResourceError at the end of a search
\* that has found no node.
C11_NoCandidateFails ==
    [][\A t \in Threads :
          /\ EmptySearchRaisesResourceError(t)
          /\ \A process_size \in Sizes, priority \in Priorities :
                 (quantum_memory_allocation(t, process_size, priority)
                      /\ NoCandidate(process_size, priority, now')) =>
                     /\ memory_fractal' = memory_fractal
                     /\ IF SessionExpired(now')
                        THEN result' = Raised(SessionTimeoutError) /\ pc'[t] = "idle"
                        ELSE IF GT(process_size, MAX_MEMORY_ALLOCATION)
                        THEN result' = Raised(SizeExceededError) /\ pc'[t] = "idle"
                        ELSE pc'[t] = "search" /\ local'[t].search_paths = <<>>]_vars

\* a request larger than what is left on every node it may use has just been
\* refused, while every node is still inside its scan window
C11_Witness ==
    /\ result = Raised(ResourceErrorExc)
    /\ now = 0
    /\ \E ln \in AllNodes : GT(memory_fractal[ln[1]][ln[2]].utilization, Zero)
    /\ Quiescent

\* the sum of the memory_allocation of the nodes 0 .. n - 1 of one level
RECURSIVE LevelAllocation(_, _)
LevelAllocation(nodes, n) ==
    IF n = 0 THEN Zero
    ELSE Add(nodes[n - 1].memory_allocation, LevelAllocation(nodes, n - 1))

\* a tree of d levels of b nodes
HasShape(tree, d, b) ==
    /\ DOMAIN tree = 0 .. (d - 1)
    /\ \A level \in 0 .. (d - 1) : DOMAIN tree[level] = 0 .. (b - 1)

\* C12 as claimed: the constructor of the core optimizer raises exactly when depth
\* is outside [3, 8], branches is outside [2, 16] or the total capacity is not
\* positive; when it raises no tree exists, otherwise the three trees are built.
C12_RejectsBadShapeOrNoCapacity ==
    (ctor.cls = "core" /\ ctor.state # "new") =>
        IF \/ ctor.depth \notin MIN_FRACTAL_DEPTH .. MAX_FRACTAL_DEPTH
           \/ ctor.branches \notin MIN_FRACTAL_BRANCHES .. MAX_FRACTAL_BRANCHES
           \/ LE(_get_secure_ram_allocation(ctor.system_ram), Zero)
        THEN /\ ctor.state = "raised"
             /\ result.kind = "raise"
             /\ memory_fractal = <<>> /\ compute_fractal = <<>>
             /\ security_fractal = <<>>
        ELSE /\ ctor.state = "built"
             /\ HasShape(memory_fractal, ctor.depth, ctor.branches)
             /\ HasShape(compute_fractal, ctor.depth, ctor.branches)
             /\ HasShape(security_fractal, ctor.depth, ctor.branches)

\* C12 amended: the constructor of the core optimizer raises QuantumSecurityError
\* exactly when depth is outside [3, 8], branches is outside [2, 16] or
\* security_level is outside [1, 5]; the total capacity is read from the machine and
\* is not checked.  When it raises no tree exists, otherwise the three trees are
\* built with depth levels of branches nodes.
C12_RejectsBadShapeOrSecurityLevel ==
    (ctor.cls = "core" /\ ctor.state # "new") =>
        IF \/ ctor.depth \notin MIN_FRACTAL_DEPTH .. MAX_FRACTAL_DEPTH
           \/ ctor.branches \notin MIN_FRACTAL_BRANCHES .. MAX_FRACTAL_BRANCHES
           \/ ctor.security_level \notin MIN_SECURITY_LEVEL .. MAX_SECURITY_LEVEL
        THEN /\ ctor.state = "raised"
             /\ result.kind = "raise"
             /\ memory_fractal = <<>> /\ compute_fractal = <<>>
             /\ security_fractal = <<>>
        ELSE /\ ctor.state = "built"
             /\ HasShape(memory_fractal, ctor.depth, ctor.branches)
             /\ HasShape(compute_fractal, ctor.depth, ctor.branches)
             /\ HasShape(security_fractal, ctor.depth, ctor.branches)

\* a call with depth and branches in range was refused for its security_level
C12_Witness ==
    /\ ctor.cls = "core"
    /\ ctor.state = "raised"
    /\ ctor.depth \in MIN_FRACTAL_DEPTH .. MAX_FRACTAL_DEPTH
    /\ ctor.branches \in MIN_FRACTAL_BRANCHES .. MAX_FRACTAL_BRANCHES
    /\ result = Raised(SecurityLevelError)

\* C13: in the memory tree either constructor builds, the memory_allocation of
\* the nodes of level 0 sum to at most total_ram, and so do those of every other
\* level.
C13_LevelWithinTotal ==
    (ctor.state = "built") =>
        LET tree == IF ctor.cls = "core" THEN memory_fractal ELSE st_memory_fractal
        IN  \A level \in 0 .. (ctor.depth - 1) :
                LE(LevelAllocation(tree[level], ctor.branches), ctor.total_ram)

\* a tree of the core optimizer whose level 0 takes the whole of total_ram
C13_Witness ==
    /\ ctor.cls = "core"
    /\ ctor.state = "built"
    /\ GT(ctor.total_ram, Zero)
    /\ LevelAllocation(memory_fractal[0], ctor.branches) = ctor.total_ram
    /\ GT(LevelAllocation(memory_fractal[ctor.depth - 1], ctor.branches), Zero)

\* what the records of a memory node reserve: the fractions
\* min(size, memory_allocation) / memory_allocation, added up in the order of the
\* list
ReservedSum(node_info) ==
    LET RECURSIVE Sum(_)
        Sum(i) == IF i = 0 THEN Zero
                  ELSE FAdd(Sum(i - 1),
                            ReservedFraction(node_info.active_processes[i].size,
                                             node_info))
    IN  Sum(Len(node_info.active_processes))

\* C14: whenever no call is under way, each memory node's utilization is the sum
\* of the fractions the records in its list reserve; a node with an empty list
\* has utilization 0, also after allocations and cleanups that ran interleaved.
C14_UtilizationIsSumOfRecords ==
    Quiescent =>
        \A ln \in AllNodes :
            memory_fractal[ln[1]][ln[2]].utilization
                = ReservedSum(memory_fractal[ln[1]][ln[2]])

\* C15: a call of _emergency_cleanup that runs to its end with no other call
\* beside it leaves every memory node with an empty list and utilization 0 and
\* every compute node with current_load 0, whatever the state it began in.
C15_CleanupClearsEverything ==
    [][\A t \in Threads :
          (cleanup_compute(t) /\ pc'[t] = "idle" /\ local[t].alone) =>
              /\ \A ln \in AllNodes :
                     /\ memory_fractal'[ln[1]][ln[2]].active_processes = <<>>
                     /\ memory_fractal'[ln[1]][ln[2]].utilization = Zero
                     /\ compute_fractal'[ln[1]][ln[2]].current_load = Zero
              /\ result' = Returned(<<>>)]_vars

\* a cleanup that ran alone has swept the memory of a tree on which an
\* allocation had been placed, and stands before the last compute node
C15_Witness ==
    \E t \in Threads :
        /\ pc[t] = "cleanup_compute"
        /\ local[t].index = Len(NodeOrder)
        /\ local[t].alone
        /\ allocations >= 1
        /\ TotalRecords(memory_fractal) = 0
        /\ TotalCommitted(memory_fractal) = Zero

\* the record thread t's call appended is gone from its node: a cleanup swept the
\* node while the call was under way
CleanupOverlapped(t) ==
    /\ pc[t] \in {"load", "store", "balance"}
    /\ LET list == memory_fractal[local[t].level][local[t].node].active_processes
       IN  ~\E i \in 1 .. Len(list) :
               list[i] = [size |-> local[t].size, fractal_path |-> local[t].path]

\* sum(node["utilization"] ...) over a memory tree, lines 347-351
UtilizationSum(tree) ==
    LET RECURSIVE Sum(_)
        Sum(i) == IF i = 0 THEN Zero
                  ELSE FAdd(Sum(i - 1), tree[NodeOrder[i][1]][NodeOrder[i][2]].utilization)
    IN  Sum(depth * branches)

\* C16: when a cleanup ran while an allocation call was under way, then once that
\* call and the cleanup have both returned the metrics report memory utilization 0.
C16_CleanupWinsOverInFlight ==
    [][\A t \in Threads :
          (/\ pc[t] = "balance" /\ pc'[t] = "idle"
           /\ CleanupOverlapped(t)
           /\ \A u \in Threads \ {t} : pc[u] = "idle") =>
              FormatPercent1(FDiv(UtilizationSum(memory_fractal'),
                                  PyInt(depth * branches)))
                  = Str(<<"0", ".", "0", "%">>)]_vars

\* C17: a thread that is inside an operation on the trees holds the lock, so no
\* two threads are inside such operations at once.
C17_TreeCodeUnderLock ==
    /\ \A t \in Threads : pc[t] # "idle" => security_lock = t
    /\ Cardinality({t \in Threads : pc[t] # "idle"}) <= 1

\* the list s without its i-th element
RemoveAt(s, i) == SubSeq(s, 1, i - 1) \o SubSeq(s, i + 1, Len(s))

\* what releasing the i-th record of node ln would do to the memory tree
Released(ln, i) ==
    [memory_fractal EXCEPT
        ![ln[1]][ln[2]].active_processes = RemoveAt(@, i),
        ![ln[1]][ln[2]].utilization =
            FSub(@, ReservedFraction(
                        memory_fractal[ln[1]][ln[2]].active_processes[i].size,
                        memory_fractal[ln[1]][ln[2]]))]

\* the steps that write the memory tree
MemoryWriters ==
    \E t \in Threads :
        qma_append(t) \/ qma_store(t) \/ cleanup_clear(t) \/ cleanup_reset(t)

\* C18: whenever no call is under way, every allocation record can be released:
\* some operation of the allocator removes exactly that record from its node and
\* lowers the node's utilization by what the record reserved, leaving every other
\* record and node as they are.  (Only the steps of MemoryWriters change the
\* memory tree, so it is among them that the release is looked for.)
C18_EveryRecordCanBeReleased ==
    /\ [][memory_fractal' # memory_fractal => MemoryWriters]_vars
    /\ [](Quiescent =>
             \A ln \in AllNodes :
                 \A i \in 1 .. Len(memory_fractal[ln[1]][ln[2]].active_processes) :
                     ENABLED (MemoryWriters /\ memory_fractal' = Released(ln, i)))

\* C19: no step of memory allocation, of the metrics snapshot or of emergency
\* cleanup changes a node's security_score, threat_level or last_scan: they stay
\* what construction made them.
C19_TrustScoreUntouched ==
    [][\A ln \in AllNodes :
          /\ security_fractal'[ln[1]][ln[2]].security_score
                 = security_fractal[ln[1]][ln[2]].security_score
          /\ security_fractal'[ln[1]][ln[2]].threat_level
                 = security_fractal[ln[1]][ln[2]].threat_level
          /\ security_fractal'[ln[1]][ln[2]].last_scan
                 = security_fractal[ln[1]][ln[2]].last_scan]_vars

\* an allocation and a metrics snapshot have run on an optimizer whose clock
\* moved on while it was built, the clock has gone past the scan window, and
\* every node still has the score and the scan time construction gave it
C19_Witness ==
    /\ Quiescent
    /\ result.kind = "metrics"
    /\ allocations >= 1
    /\ calls = MaxCalls
    /\ now > SCAN_MAX_AGE
    /\ \A ln \in AllNodes :
           /\ security_fractal[ln[1]][ln[2]].security_score = 100
    /\ security_fractal[0][0].last_scan = 0
    /\ security_fractal[depth - 1][branches - 1].last_scan = 1

\* the utilizations of the nodes of a tree added up as the real numbers they are
TotalUtilization(tree) ==
    LET RECURSIVE Sum(_)
        Sum(i) == IF i = 0 THEN Zero
                  ELSE Add(Sum(i - 1), tree[NodeOrder[i][1]][NodeOrder[i][2]].utilization)
    IN  Sum(depth * branches)

\* the tenths of a percent a string like "9.0%" stands for
ParsePercent1(str) ==
    LET parts == Split(SubSeq(str, 1, Len(str) - 1), Ord("."))
    IN  10 * StrToInt(parts[1]) + StrToInt(parts[2])

\* the steps of a call of get_performance_metrics
MetricsStep(t) ==
    \/ get_performance_metrics(t)
    \/ metrics_utilization(t)
    \/ metrics_load(t)
    \/ metrics_efficiency(t)

\* C20: no step of a call of get_performance_metrics changes the memory tree, the
\* compute tree, the security tree or optimization_cycles, and the
\* memory_utilization a call reports that ran with no other call beside it is the
\* mean of the node utilizations of the state it was taken in: the float
\* sum / (depth * branches) written as a percentage with one decimal, which is
\* the mean to the tenth of a percent.
C20_MetricsReadOnly ==
    [][\A t \in Threads :
          /\ MetricsStep(t) =>
                 UNCHANGED <<memory_fractal, compute_fractal, security_fractal,
                             optimization_cycles>>
          /\ (metrics_efficiency(t) /\ pc'[t] = "idle" /\ local[t].alone) =>
                 /\ result'.metrics.optimization_cycles = optimization_cycles
                 /\ result'.metrics.memory_utilization =
                        FormatPercent1(FDiv(UtilizationSum(memory_fractal),
                                            PyInt(depth * branches)))
                 /\ LT(Distance(Mul(PyInt(1000), TotalUtilization(memory_fractal)),
                                PyInt(ParsePercent1(result'.metrics.memory_utilization)
                                          * (depth * branches))),
                       PyInt(depth * branches))]_vars

\* a snapshot taken of a tree that holds an allocation reported a utilization
\* above zero
C20_Witness ==
    /\ result.kind = "metrics"
    /\ TotalRecords(memory_fractal) >= 1
    /\ ParsePercent1(result.metrics.memory_utilization) > 0

(***************************************************************************)
(* C21: validate_node(level, node) is true if and only if the node's trust *)
(* score is strictly above 70 and the node was scanned within the last 60  *)
(* seconds; no other attribute of the node influences the result.          *)
(***************************************************************************)
\* the security node a call on (level, node) reads
ScannedNode(level, node) ==
    security_fractal[ListIndex(level, depth)][ListIndex(node, branches)]

InTree(level, node) == ListHasIndex(level, depth) /\ ListHasIndex(node, branches)

\* C21: a call on a node of the tree returns true if and only if, when it reads
\* the clock, the node's security_score is above 70 and its last_scan is at most
\* 60 seconds old.  The call a step makes is the one on the arguments it leaves
\* in result.
C21_TrueIffScoreAndFreshScan ==
    [][LET level == result'.args[1]
           node == result'.args[2]
       IN  (InTree(level, node) /\ validate_node_security_call(level, node)) =>
               (result'.value <=>
                    (/\ ScannedNode(level, node).security_score > MIN_SECURITY_SCORE
                     /\ (now' - ScannedNode(level, node).last_scan) <= SCAN_MAX_AGE))]_vars

\* a call on a node whose scan was exactly 60 seconds old when the call read
\* the clock, and whose score is above 70, has returned true
C21_Witness ==
    /\ result.kind = "bool"
    /\ result.value
    /\ InTree(result.args[1], result.args[2])
    /\ LET security_node == ScannedNode(result.args[1], result.args[2])
       IN  /\ security_node.security_score > MIN_SECURITY_SCORE
           /\ (now - security_node.last_scan) = SCAN_MAX_AGE

(***************************************************************************)
(* C22: compute distribution of complexity c stripes the work over the     *)
(* nodes in level-major order: it never fails, the returned list is the    *)
(* paths of a prefix of that node order (each once, in order), each        *)
(* touched node is assigned min(remaining, node capacity) and its          *)
(* current_load rises by assigned / capacity (at most 1.0 per call), the   *)
(* total assigned is min(c, total tree capacity), any excess being         *)
(* dropped; for c <= 0 the list is empty and no load changes.              *)
(***************************************************************************)
\* the i-th compute node of a tree in level-major order
ComputeNode(tree, i) == tree[NodeOrder[i][1]][NodeOrder[i][2]]

\* the capacity of the first k nodes in level-major order
PrefixCapacity(tree, k) ==
    LET RECURSIVE Sum(_)
        Sum(i) == IF i = 0 THEN 0 ELSE NodeCapacity(ComputeNode(tree, i)) + Sum(i - 1)
    IN  Sum(k)

\* what the i-th node gets of complexity c: min(remaining, capacity), where
\* remaining is c less the capacity of the nodes before it
Share(tree, c, i) ==
    Max(0, Min(c - PrefixCapacity(tree, i - 1), NodeCapacity(ComputeNode(tree, i))))

\* what the nodes get of complexity c, all together
TotalShare(tree, c) ==
    LET RECURSIVE Sum(_)
        Sum(i) == IF i = 0 THEN 0 ELSE Share(tree, c, i) + Sum(i - 1)
    IN  Sum(Len(NodeOrder))

C22_StripesInNodeOrder ==
    [][\A t \in Threads, c \in Complexities :
         fractal_cpu_distribution(t, c) =>
             LET touched == {i \in 1 .. Len(NodeOrder) :
                                 Share(st_compute_fractal, c, i) > 0}
                 k == Cardinality(touched)
             IN  /\ result'.kind = "paths"
                 /\ touched = 1 .. k
                 /\ Len(result'.paths) = k
                 /\ \A i \in 1 .. k :
                        result'.paths[i] = ComputeNode(st_compute_fractal, i).fractal_path
                 /\ \A i \in 1 .. Len(NodeOrder) :
                        LET rise == FDiv(PyInt(Share(st_compute_fractal, c, i)),
                                         PyInt(NodeCapacity(
                                                   ComputeNode(st_compute_fractal, i))))
                        IN  /\ ComputeNode(st_compute_fractal', i) =
                                   [ComputeNode(st_compute_fractal, i) EXCEPT
                                        !.current_load =
                                            IF i \in touched THEN FAdd(@, rise) ELSE @]
                            /\ LE(rise, One)
                 /\ TotalShare(st_compute_fractal, c) =
                        Max(0, Min(c, TotalCapacity(st_compute_fractal)))
                 /\ (c <= 0) => (result'.paths = <<>>
                                 /\ st_compute_fractal' = st_compute_fractal)]_vars

\* a second call has asked for more than the tree takes: every path is
\* returned, the excess is dropped, and the first node, loaded by the call
\* before, now stands above 1.0 while the last stands at exactly 1.0
C22_Witness ==
    /\ result.kind = "paths"
    /\ distributions = 2
    /\ Len(result.paths) = Len(NodeOrder)
    /\ GT(ComputeNode(st_compute_fractal, 1).current_load, One)
    /\ ComputeNode(st_compute_fractal, Len(NodeOrder)).current_load = One

(***************************************************************************)
(* C23: after any number of rebalance calls (optimize_system_wide) in any  *)
(* load state, every compute node's efficiency stays within [0.5, 1.5].    *)
(***************************************************************************)
C23_EfficiencyInRange ==
    \A i \in 1 .. Len(NodeOrder) :
        /\ GE(ComputeNode(st_compute_fractal, i).efficiency, Half)
        /\ LE(ComputeNode(st_compute_fractal, i).efficiency, FAdd(One, Half))

(***************************************************************************)
(* C24: a rebalance call changes only the compute nodes' efficiency values *)
(* and the optimization-cycle counter, which rises by exactly 1: every     *)
(* memory node and every compute node's current_load stay as they were,    *)
(* and since placement does not read efficiency, the node a later memory   *)
(* allocation chooses and the paths a later compute distribution returns   *)
(* are the same with or without the rebalance.                             *)
(***************************************************************************)
C24_RebalanceTouchesEfficiencyOnly ==
    /\ [][(\E t \in Threads : optimize_system_wide(t)) =>
             /\ st_optimization_cycles' = st_optimization_cycles + 1
             /\ st_memory_fractal' = st_memory_fractal
             /\ st_compute_fractal' = RebalancedTree(st_compute_fractal)
             /\ \A i \in 1 .. Len(NodeOrder) :
                    ComputeNode(st_compute_fractal', i) =
                        [ComputeNode(st_compute_fractal, i) EXCEPT
                             !.efficiency = ComputeNode(st_compute_fractal', i).efficiency]
             /\ UNCHANGED <<coreVars, now, ctor, optimization_cycles, st_lock, placed,
                            distributions, allocations, calls, pc, local>>]_vars
    /\ [](\A c \in Complexities :
              LET with == Distribute(RebalancedTree(st_compute_fractal), 1, c, <<>>)
                  without == Distribute(st_compute_fractal, 1, c, <<>>)
              IN  /\ with.assigned_paths = without.assigned_paths
                  /\ \A i \in 1 .. Len(NodeOrder) :
                         ComputeNode(with.tree, i).current_load =
                             ComputeNode(without.tree, i).current_load)

\* a rebalance has just run on a loaded tree: the first node, above 0.8, has
\* lost efficiency, the last, idle, has gained, and the loads are still there
C24_Witness ==
    /\ result = Returned(<<>>)
    /\ st_optimization_cycles >= 1
    /\ distributions >= 1
    /\ LT(ComputeNode(st_compute_fractal, 1).efficiency, One)
    /\ GT(ComputeNode(st_compute_fractal, Len(NodeOrder)).efficiency, One)
    /\ GT(ComputeNode(st_compute_fractal, 1).current_load, HIGH_LOAD)
    /\ ComputeNode(st_compute_fractal, Len(NodeOrder)).current_load = Zero

(***************************************************************************)
(* C25: path identifiers round-trip and are unique: for every level below  *)
(* depth and node index below branches, _parse_secure_path of the path     *)
(* generated for (level, node) is exactly (level, node), so no two nodes   *)
(* of a tree share a path and every handle path maps to exactly one node.  *)
(***************************************************************************)
\* the nodes of the largest tree
LargestTree == (0 .. (MAX_FRACTAL_DEPTH - 1)) \X (0 .. (MAX_FRACTAL_BRANCHES - 1))

C25_PathsRoundTrip ==
    /\ result.kind = "pair" =>
           /\ result.value = <<result.args[1], result.args[2]>>
           /\ \A other \in LargestTree :
                  other # result.value =>
                      _generate_secure_path(other[1], other[2], result.args[3]) #
                          _generate_secure_path(result.args[1], result.args[2],
                                                result.args[3])
    /\ \A ln \in AllNodes :
           /\ _parse_secure_path(memory_fractal[ln[1]][ln[2]].fractal_path) = ln
           /\ \A other \in AllNodes :
                  memory_fractal[other[1]][other[2]].fractal_path =
                      memory_fractal[ln[1]][ln[2]].fractal_path => other = ln

\* the path of the last node of the last level of the largest tree, both
\* indexes at their largest and the node index of two digits, has come back
C25_Witness ==
    /\ result.kind = "pair"
    /\ result.args[1] = MAX_FRACTAL_DEPTH - 1
    /\ result.args[2] = MAX_FRACTAL_BRANCHES - 1
    /\ result.args[2] >= 10
    /\ result.value = <<result.args[1], result.args[2]>>

(***************************************************************************)
(* C26: every memory allocation call terminates: the candidate search      *)
(* visits each of the depth * branches nodes at most once, and because the *)
(* lock is re-entrant and always released on return or error, a thread     *)
(* waiting for the lock is eventually served under fair scheduling.        *)
(***************************************************************************)
\* thread t is inside the body of quantum_memory_allocation
InBody(t) == pc[t] \in {"search", "append", "load", "store", "balance"}

\* thread t is inside the body of get_performance_metrics
InMetrics(t) ==
    pc[t] \in {"metrics_utilization", "metrics_load", "metrics_efficiency"}

C26_AllocationTerminates ==
    /\ [](/\ Len(NodeOrder) = depth * branches
          /\ \A i \in 1 .. Len(NodeOrder), j \in 1 .. Len(NodeOrder) :
                 NodeOrder[i] = NodeOrder[j] => i = j
          /\ \A t \in Threads :
                 pc[t] = "search" => local[t].index \in 1 .. Len(NodeOrder))
    /\ [][\A t \in Threads :
             (pc[t] = "search" /\ pc' = pc /\ qma_search(t)) =>
                 local'[t].index = local[t].index + 1]_vars
    /\ [](\A t \in Threads : security_lock = t <=> (InBody(t) \/ InMetrics(t)))
    /\ \A t \in Threads : InBody(t) ~> (pc[t] = "idle" /\ security_lock # t)

\* both threads have been served, one after the other: two calls have gone
\* through the body, the second has ended with its error, and the lock is free
C26_Witness ==
    /\ allocations = 2
    /\ TotalRecords(memory_fractal) = 2
    /\ result = Raised(MissingBalanceError)
    /\ security_lock = NoThread
    /\ Quiescent

(***************************************************************************)
(* C27: emergency cleanup never raises to its caller: from any state,      *)
(* including one where node fields are missing or malformed, the call      *)
(* returns normally (failures are only logged), and it may be called any   *)
(* number of times.                                                        *)
(***************************************************************************)
\* the place in the order of the loops of the first memory node without its
\* active_processes key, 0 when every node has it
FirstKeyError(tree) ==
    LET missing == {i \in 1 .. Len(NodeOrder) :
                        ~HasProcessList(tree[NodeOrder[i][1]][NodeOrder[i][2]])}
    IN  IF missing = {} THEN 0 ELSE CHOOSE i \in missing : \A j \in missing : i <= j

\* thread t is inside _emergency_cleanup
InCleanup(t) == pc[t] \in {"cleanup_clear", "cleanup_reset", "cleanup_compute"}

C27_CleanupNeverRaises ==
    /\ result.kind # "raise"
    /\ \A t \in Threads :
           /\ pc[t] = "idle" \/ InCleanup(t)
           /\ (pc[t] = "idle" /\ calls < MaxCalls) => ENABLED _emergency_cleanup(t)
           /\ pc[t] = "cleanup_clear" => ENABLED cleanup_clear(t)
           /\ pc[t] = "cleanup_reset" => ENABLED cleanup_reset(t)
           /\ pc[t] = "cleanup_compute" => ENABLED cleanup_compute(t)

\* a cleanup has returned from a tree whose third node had lost its key: the
\* two nodes before it are swept, the nodes from it on and the compute loads
\* are as they were
C27_Witness ==
    /\ result = Returned(<<>>)
    /\ Quiescent
    /\ FirstKeyError(memory_fractal) = 3
    /\ \A i \in 1 .. 2 :
           memory_fractal[NodeOrder[i][1]][NodeOrder[i][2]].utilization = Zero
    /\ \A i \in 3 .. Len(NodeOrder) :
           GT(memory_fractal[NodeOrder[i][1]][NodeOrder[i][2]].utilization, Zero)
    /\ \A ln \in AllNodes : compute_fractal[ln[1]][ln[2]].current_load = Half

(***************************************************************************)
(* C28: a call of quantum_memory_allocation that ends by raising leaves    *)
(* the memory tree exactly as it was before the call: no record appended,  *)
(* no utilization changed, also when the failure comes after the target    *)
(* node has been chosen.                                                   *)
(* A call that raises before its search is one step.  A call that has      *)
(* chosen a node ends at line 210; for the first such call of a run        *)
(* (allocations = 1) the tree before the call is the tree as built, since  *)
(* until then nothing but cleanup, which empties, has written to it.       *)
(***************************************************************************)
C28_RaisingCallLeavesTreeAsItWas ==
    [][/\ (result'.kind = "raise" /\ pc' = pc) => memory_fractal' = memory_fractal
       /\ \A t \in Threads :
              (pc[t] = "balance" /\ pc'[t] = "idle" /\ result'.kind = "raise"
               /\ allocations = 1) =>
                  memory_fractal' = _create_quantum_memory_tree(Self)]_vars

(***************************************************************************)
(* C29: node eligibility is lost for good by ageing: last_scan is set only *)
(* at construction and nothing updates it, so once more than 60 seconds    *)
(* have passed since construction _validate_node_security is false for     *)
(* every node and every later memory allocation fails with the resource    *)
(* error, for the rest of the allocator's life and well before the         *)
(* 300-second session timeout.                                             *)
(***************************************************************************)
\* the clock read current_time is more than 60 seconds after construction:
\* after the scan of the last node, the last scan the constructor makes
ScansExpired(current_time) ==
    (current_time - security_fractal[depth - 1][branches - 1].last_scan) > SCAN_MAX_AGE

\* no scan time is ever rewritten, and past 60 seconds no node passes at any
\* later read of the clock
ScansOnlyAge ==
    /\ \A ln \in AllNodes :
           security_fractal'[ln[1]][ln[2]].last_scan =
               security_fractal[ln[1]][ln[2]].last_scan
    /\ ScansExpired(now) =>
           /\ SCAN_MAX_AGE < SESSION_TIMEOUT
           /\ \A ln \in AllNodes, current_time \in ClockReads :
                  ~_validate_node_security(ln[1], ln[2], current_time)

\* a search that stands past the 60 seconds with nothing on its list goes on
\* with nothing on its list and ends with the resource error
EmptySearchFails(t) ==
    (qma_search(t) /\ ScansExpired(now) /\ local[t].search_paths = <<>>) =>
        /\ memory_fractal' = memory_fractal
        /\ IF local[t].index < Len(NodeOrder)
           THEN pc'[t] = "search" /\ local'[t].search_paths = <<>>
           ELSE result' = Raised(ResourceErrorExc) /\ pc'[t] = "idle"

C29_AgedOutFailsWithResourceError ==
    [][/\ ScansOnlyAge
       /\ \A t \in Threads :
              /\ EmptySearchFails(t)
              /\ \A process_size \in Sizes, priority \in Priorities :
                     (quantum_memory_allocation(t, process_size, priority)
                          /\ ScansExpired(now')) =>
                         /\ pc'[t] = "search"
                         /\ local'[t].search_paths = <<>>]_vars

\* C29 as the code has it: a call made past 60 seconds fails and places nothing,
\* with the session error once the session has timed out, with the size error
\* for a size above the limit, and otherwise with the resource error: its search
\* begins with nothing on its list, finds no node that passes and raises.
C29_AgedOutAlwaysFails ==
    [][/\ ScansOnlyAge
       /\ \A t \in Threads :
              /\ EmptySearchFails(t)
              /\ \A process_size \in Sizes, priority \in Priorities :
                     (quantum_memory_allocation(t, process_size, priority)
                          /\ ScansExpired(now')) =>
                         /\ memory_fractal' = memory_fractal
                         /\ IF SessionExpired(now')
                            THEN result' = Raised(SessionTimeoutError)
                                     /\ pc'[t] = "idle"
                            ELSE IF GT(process_size, MAX_MEMORY_ALLOCATION)
                            THEN result' = Raised(SizeExceededError)
                                     /\ pc'[t] = "idle"
                            ELSE pc'[t] = "search"
                                     /\ local'[t].search_paths = <<>>
                                     /\ ScansExpired(now')]_vars

\* a call made after the scans have aged out and before the session has
\* timed out has failed with the resource error, with room in the tree
C29_Witness ==
    /\ ScansExpired(now)
    /\ ~SessionExpired(now)
    /\ result = Raised(ResourceErrorExc)
    /\ \E ln \in AllNodes :
           Available(memory_fractal[ln[1]][ln[2]]) =
               memory_fractal[ln[1]][ln[2]].memory_allocation

(***************************************************************************)
(* C30: the code has no release operation, so between two emergency        *)
(* cleanups every memory node's utilization and record count never         *)
(* decrease under allocations of non-negative size; the capacity an        *)
(* allocation has consumed is never regained except by emergency cleanup,  *)
(* so a workload of repeated allocations of one fixed size reaches a state *)
(* where every further allocation fails.                                   *)
(* On finite runs of the core optimizer: only a write of _emergency_cleanup *)
(* lowers a node's utilization or record count or makes a node that did    *)
(* not qualify for a request qualify, and every placed allocation takes    *)
(* capacity away, so only finitely many can be placed.                     *)
(***************************************************************************)
\* the step is one of the writes of _emergency_cleanup on a memory node
CleanupWrite == \E t \in Threads : cleanup_clear(t) \/ cleanup_reset(t)

\* no step of the core optimizer other than a write of _emergency_cleanup gives
\* capacity back: it lowers no node's utilization or record count, and a node
\* that did not qualify for a request does not qualify after it
NothingRegained ==
    \A ln \in AllNodes :
        (memory_fractal'[ln[1]][ln[2]] # memory_fractal[ln[1]][ln[2]]) =>
            /\ (\/ LT(memory_fractal'[ln[1]][ln[2]].utilization,
                      memory_fractal[ln[1]][ln[2]].utilization)
                \/ Len(memory_fractal'[ln[1]][ln[2]].active_processes) <
                       Len(memory_fractal[ln[1]][ln[2]].active_processes)) =>
                   CleanupWrite
            /\ \A process_size \in Sizes, priority \in Priorities :
                   (/\ IsCandidate(memory_fractal'[ln[1]][ln[2]], ln[1],
                                   process_size, priority)
                    /\ ~IsCandidate(memory_fractal[ln[1]][ln[2]], ln[1],
                                    process_size, priority)) =>
                       CleanupWrite

\* thread t's call writes the utilization of the node it was placed on
Commits(t) == pc[t] = "store" /\ pc'[t] = "balance" /\ qma_store(t)

\* the node thread t's call is placed on, after the step
CommittedNode(t) == memory_fractal'[local[t].level][local[t].node]

====
